---- MODULE Spec2Model ----
(***************************************************************************)
(* Model of the LIVE-data synchronisation pipeline                         *)
(* (scripts/upload-live-to-openai.mjs): configuration check, assistant     *)
(* link, artifact generation, cleanup of stale LIVE copies in the vector   *)
(* store, upload, indexing batch, status poll and final listing.           *)
(*                                                                         *)
(* Strings are sequences of tokens.  A token is an atom of text ("10_",    *)
(* "LIVE", ".txt", "/", a space "sp", a quote "dq", ...), so that          *)
(* trimming, lower-casing, substring search and path joining are computed  *)
(* on the string the way the code computes them.                           *)
(***************************************************************************)
EXTENDS Integers, Sequences, FiniteSets, TLC

(* ------------------------------ bounds --------------------------------- *)
\* largest number of members of the index before the first run starts
MaxIndex == 3
\* largest number of status queries one poll loop may issue in the model
MaxPolls == 3
\* the longest run of complete entries on a sampled listing page
MaxRun == 21
\* the most p and li texts on a sampled homepage
MaxTexts == 4
\* the longest sampled URL, in characters
MaxUrlLen == 4
\* the number of URLs of a sampled site
MaxUrls == 84
\* the longest sampled text handed to chunkText, in characters
MaxBody == 2400

(* ------------------------- string primitives --------------------------- *)
\* the characters the regular expression class [\s"'...] matches
QuoteOrSpace == {"sp", "dq"}
\* the characters String.prototype.trim removes
WhiteSpace == {"sp"}

RECURSIVE StripLeading(_, _)
StripLeading(s, cls) ==
    IF s # <<>> /\ Head(s) \in cls THEN StripLeading(Tail(s), cls) ELSE s

RECURSIVE StripTrailing(_, _)
StripTrailing(s, cls) ==
    IF s # <<>> /\ s[Len(s)] \in cls
    THEN StripTrailing(SubSeq(s, 1, Len(s) - 1), cls)
    ELSE s

trim(s) == StripTrailing(StripLeading(s, WhiteSpace), WhiteSpace)

\* cleanEnv that only trims white space and leaves the quotes
cleanEnv_TrimOnly(v) == trim(v)

\* upload-live-to-openai.mjs:21  cleanEnv
cleanEnv(v) == StripTrailing(StripLeading(trim(v), QuoteOrSpace), QuoteOrSpace)

LowerTok(t) ==
    CASE t = "LIVE" -> "live"
      [] t = "DATA" -> "data"
      [] t = "OLD_" -> "old_"
      [] OTHER -> t

\* String.prototype.toLowerCase
toLowerCase(s) == [n \in 1..Len(s) |-> LowerTok(s[n])]

\* String.prototype.includes
includes(s, sub) ==
    \E n \in 0..(Len(s) - Len(sub)) : SubSeq(s, n + 1, n + Len(sub)) = sub

(* ------------------------------ paths ---------------------------------- *)
cwd == <<"/", "repo">>
tmpdir == <<"/", "tmp">>
LiveBaseName == <<"10_", "LIVE", "_obec_chomutice", ".txt">>

isAbsolute(p) == p # <<>> /\ Head(p) = "/"
join(a, b) == a \o <<"/">> \o b

RECURSIVE basename(_)
basename(p) ==
    IF p = <<>> \/ p[Len(p)] = "/" THEN <<>>
    ELSE basename(SubSeq(p, 1, Len(p) - 1)) \o <<p[Len(p)]>>

\* a serverless test that knows the NETLIFY marker only
isServerless_NetlifyOnly(e) == e.NETLIFY # <<>>

\* upload-live-to-openai.mjs:116  isServerless
isServerless(e) == e.NETLIFY # <<>> \/ e.AWS_LAMBDA_FUNCTION_NAME # <<>>

\* an orchestrator that prefers the serverless location to the override
resolveLivePath_MarkerFirst(e) ==
    IF isServerless(e)
    THEN join(join(tmpdir, <<"knowledge">>), LiveBaseName)
    ELSE IF cleanEnv(e.LIVE_FILE_PATH) # <<>>
         THEN IF isAbsolute(cleanEnv(e.LIVE_FILE_PATH)) THEN cleanEnv(e.LIVE_FILE_PATH)
              ELSE join(cwd, cleanEnv(e.LIVE_FILE_PATH))
         ELSE join(join(join(cwd, <<"public">>), <<"knowledge">>), LiveBaseName)

\* upload-live-to-openai.mjs:121  resolveLivePath
resolveLivePath(e) ==
    LET explicit == cleanEnv(e.LIVE_FILE_PATH) IN
    IF explicit # <<>>
    THEN IF isAbsolute(explicit) THEN explicit ELSE join(cwd, explicit)
    ELSE IF isServerless(e)
         THEN join(join(tmpdir, <<"knowledge">>), LiveBaseName)
         ELSE join(join(join(cwd, <<"public">>), <<"knowledge">>), LiveBaseName)

\* a scraper that ignores the path override it is given
resolveOutPath_IgnoreOverride(e) ==
    IF e.NETLIFY # <<>> \/ e.AWS_LAMBDA_FUNCTION_NAME # <<>>
    THEN join(join(tmpdir, <<"knowledge">>), LiveBaseName)
    ELSE join(join(join(cwd, <<"public">>), <<"knowledge">>), LiveBaseName)

\* live_chomutice_scrape.mjs (src/unnamed/part_002:24)  resolveOutPath
resolveOutPath(e) ==
    LET explicit == cleanEnv(e.LIVE_FILE_PATH) IN
    IF explicit # <<>>
    THEN IF isAbsolute(explicit) THEN explicit ELSE join(cwd, explicit)
    ELSE IF e.NETLIFY # <<>> \/ e.AWS_LAMBDA_FUNCTION_NAME # <<>>
         THEN join(join(tmpdir, <<"knowledge">>), LiveBaseName)
         ELSE join(join(join(cwd, <<"public">>), <<"knowledge">>), LiveBaseName)

(* ------------------------- artifact content ---------------------------- *)
\* a normalisation that leaves the en dash alone
NormTok_QuotesOnly(t) ==
    CASE t \in {"ldq", "rdq"} -> "dq"
      [] t = "rsq" -> "sq"
      [] OTHER -> t

\* upload-live-to-openai.mjs:53: the three replacements, character by character
NormTok(t) ==
    CASE t \in {"ldq", "rdq"} -> "dq"
      [] t = "rsq" -> "sq"
      [] t = "endash" -> "-"
      [] OTHER -> t

\* upload-live-to-openai.mjs:52  normalizeText
normalizeText(s) == [n \in 1..Len(s) |-> NormTok(s[n])]

(* ----------------------- sampled configurations ------------------------ *)
RawSecrets == { <<>>, <<"sp", "dq", "dq", "sp">>, <<"dq", "key", "dq", "sp">> }
RawAssistantIds == { <<>>, <<"asst">> }
RawCleanupFlags == { <<>>, <<"0">>, <<"1">>, <<"dq", "0", "dq">> }
PathEnvs ==
    { [LIVE_FILE_PATH |-> <<>>, NETLIFY |-> <<>>, AWS_LAMBDA_FUNCTION_NAME |-> <<>>],
      [LIVE_FILE_PATH |-> <<>>, NETLIFY |-> <<"true">>, AWS_LAMBDA_FUNCTION_NAME |-> <<>>],
      [LIVE_FILE_PATH |-> <<"dq", "data", ".txt", "dq">>, NETLIFY |-> <<>>,
       AWS_LAMBDA_FUNCTION_NAME |-> <<"fn">>] }

\* process.env of the orchestrator
Envs ==
    { [OPENAI_API_KEY |-> a, VECTOR_STORE_ID |-> v, ASSISTANT_ID |-> s, CLEANUP_OLD |-> c,
       LIVE_FILE_PATH |-> e.LIVE_FILE_PATH, NETLIFY |-> e.NETLIFY,
       AWS_LAMBDA_FUNCTION_NAME |-> e.AWS_LAMBDA_FUNCTION_NAME] :
      a \in RawSecrets, v \in RawSecrets, s \in RawAssistantIds, c \in RawCleanupFlags,
      e \in PathEnvs }

NoFile == [exists |-> FALSE, content |-> <<>>]
OldFiles == { [exists |-> TRUE, content |-> <<"OBEC", "endash", "LIVE", "gen0">>],
              [exists |-> TRUE, content |-> <<"OBEC", "-", "LIVE", "gen0">>] }

\* what one run of the scraper writes (part_002:239 header line holds an en dash)
ScrapedContent(r) == <<"OBEC", "endash", "LIVE", IF r = 1 THEN "gen1" ELSE "gen2">>

(* ------------------------- the remote index ---------------------------- *)
\* A member of the vector store: its file id, the filename of the underlying
\* file, and the shape of the record the listing returns for it
\* (fn: where the listing carries the filename, idf: where it carries the id).
Pool ==
    { [id |-> 1, name |-> LiveBaseName, fn |-> "none", idf |-> "id"],
      [id |-> 2, name |-> <<"OLD_", "10_", "LIVE", ".txt">>, fn |-> "top", idf |-> "file_id"],
      [id |-> 3, name |-> <<"DATA", ".txt">>, fn |-> "nested", idf |-> "nested"],
      [id |-> 4, name |-> <<"00_", "core", ".txt">>, fn |-> "none", idf |-> "id"],
      [id |-> 5, name |-> LiveBaseName, fn |-> "top", idf |-> "none"],
      [id |-> 6, name |-> <<"10_", "LIVE", ".txt">>, fn |-> "none", idf |-> "none"] }

Runs == {1, 2}
NewFileId(r) == 100 + r

\* the record GET /vector_stores/{vs}/files returns for member m
\* (0 and <<>> stand for an absent field)
Render(m) ==
    [ id |-> IF m.idf = "id" THEN m.id ELSE 0,
      file_id |-> IF m.idf = "file_id" THEN m.id ELSE 0,
      file |-> [ id |-> IF m.idf = "nested" THEN m.id ELSE 0,
                 filename |-> IF m.fn = "nested" THEN m.name ELSE <<>> ],
      filename |-> IF m.fn = "top" THEN m.name ELSE <<>> ]

RECURSIVE SortById(_)
SortById(S) ==
    IF S = {} THEN <<>>
    ELSE LET m == CHOOSE x \in S : \A y \in S : x.id <= y.id
         IN <<m>> \o SortById(S \ {m})

Min(a, b) == IF a <= b THEN a ELSE b

\* upload-live-to-openai.mjs:198  listVectorStoreFiles (one page of at most limit records)
listVectorStoreFiles(idx, limit) ==
    LET all == SortById(idx)
    IN [n \in 1..Min(limit, Len(all)) |-> Render(all[n])]

\* upload-live-to-openai.mjs:204  pickFileId
pickFileId(f) ==
    IF f.file_id # 0 THEN f.file_id
    ELSE IF f.file.id # 0 THEN f.file.id
    ELSE f.id

\* isLive with the substring test reversed (the live name contains the filename)
isLive_Reversed(name, liveName) ==
    LET lower == toLowerCase(name) IN
    \/ includes(toLowerCase(liveName), lower)
    \/ includes(<<"10_", "live", "_obec_chomutice">>, lower)

\* isLive comparing the filename as it is, without lower-casing it
isLive_CaseSensitive(name, liveName) ==
    \/ name = toLowerCase(liveName)
    \/ includes(name, <<"10_", "live", "_obec_chomutice">>)
    \/ includes(name, <<"live", "_obec_chomutice">>)
    \/ includes(name, <<"10_", "live">>)

\* upload-live-to-openai.mjs:238  isLive
isLive(name, liveName) ==
    LET lower == toLowerCase(name) IN
    \/ lower = toLowerCase(liveName)
    \/ includes(lower, <<"10_", "live", "_obec_chomutice">>)
    \/ includes(lower, <<"live", "_obec_chomutice">>)
    \/ includes(lower, <<"10_", "live">>)

\* deleteId without the fallback to pickFileId
deleteIdOf_NoFallback(f) == f.id

\* upload-live-to-openai.mjs:247  deleteId
deleteIdOf(f) == IF f.id # 0 THEN f.id ELSE pickFileId(f)

CleanupListLimit == 100
FinalListLimit == 50
timeoutMs == 180000
pollSleepMs == 2000
\* time one status request may take
Latencies == {0, 100000}
Statuses == {"completed", "failed", "cancelled", "in_progress", "unknown"}

(* ------------------------------- state --------------------------------- *)
VARIABLES
    OPENAI_API_KEY,   \* module constants of the orchestrator (lines 27-33)
    VECTOR_STORE_ID,
    ASSISTANT_ID,
    CLEANUP_OLD,
    procEnv,          \* process.env
    disk,             \* the artifact files on the local file system
    index,            \* members of the remote vector store
    stored,           \* ids of the files uploaded to the remote file storage
    active,           \* the orchestrator processes that exist
    pc,               \* where each process is
    files,            \* cleanupOldLiveFiles: the listing it obtained
    k,                \* cleanupOldLiveFiles: position of the classification loop
    toDelete,         \* cleanupOldLiveFiles: the delete candidates
    j,                \* cleanupOldLiveFiles: position of the delete loop
    resolvedName,     \* cleanupOldLiveFiles: the filename pickFilename returned last
    reported,         \* the count printed by "Cleanup hotov (smazano: n)", -1 before
    fileId,           \* main: the id returned by the upload, 0 before
    elapsed,          \* attachFileToVectorStore: Date.now() - start
    polls,            \* number of status queries issued
    exitCode,         \* -1 while running, then the exit status of the process
    failedAt,         \* the stage whose error reached main().catch
    calls,            \* history: the remote calls and subprocesses issued, in order
    delOk,            \* history: ids whose delete call succeeded
    delFail,          \* history: ids whose delete call threw
    index0,           \* history: the index before the first run
    zeroSeen,         \* history: the index held no live copy at some point
    error,            \* the message of the error that reached main().catch
    seen,             \* history: the statuses returned, other than unfinished ones
    sent,             \* history: the bytes each run sent to the file storage
    fetches,          \* history: the pages each scraper process requested
    result,           \* the last application of a pure function
    input,            \* the argument the pure function is applied to
    crawl,            \* the crawler: its queue, its seen set and what it fetched and kept
    response,         \* the response of the scheduled handler that started each run
    chunker,          \* chunkText: its cleaned text, its offset i and its chunks
    query             \* the query handler: its position, the run status and its response

cfgVars == <<OPENAI_API_KEY, VECTOR_STORE_ID, ASSISTANT_ID, CLEANUP_OLD, procEnv, active, index0,
            input>>
cleanupVars == <<files, k, toDelete, j, resolvedName, reported, delOk, delFail>>
pollVars == <<elapsed, polls, seen>>
auxVars == <<sent, fetches, result, crawl, response, chunker, query>>
vars == <<cfgVars, auxVars, disk, index, stored, pc, cleanupVars, fileId, pollVars,
          exitCode, failedAt, error, calls, zeroSeen>>

\* main, lines 296-297
liveAbsPath == resolveLivePath(procEnv)
liveFilename == basename(liveAbsPath)

DiskPaths == { resolveLivePath(e) : e \in PathEnvs }

LiveMembers(idx) == { m \in idx : isLive(m.name, liveFilename) }
NoteZero(idx) == zeroSeen \/ LiveMembers(idx) = {}

\* no pure function applied yet
NoResult == [fn |-> "none", out |-> <<>>]

\* no argument: the specification applies no pure function to an input
NoInput == [fn |-> "none"]
\* the crawler has not started
NoCrawl == [queue |-> <<>>, seen |-> {}, fetched |-> <<>>, pages |-> <<>>, pdfLinks |-> <<>>,
            running |-> FALSE, thrown |-> FALSE]
\* the handler has not responded
NoResponse == [status |-> 0]
NoChunker == [t |-> 0, i |-> 0, chunks |-> <<>>, at |-> "idle"]
NoQuery == [at |-> "idle", created |-> "none", status |-> "none", elapsed |-> 0, calls |-> <<>>,
            seen |-> {}, code |-> 0, ok |-> FALSE, error |-> ""]

\* the state before the processes of act start, for a process.env of envs
InitOver(act, envs) ==
    /\ procEnv \in envs
    /\ OPENAI_API_KEY = cleanEnv(procEnv.OPENAI_API_KEY)
    /\ VECTOR_STORE_ID = cleanEnv(procEnv.VECTOR_STORE_ID)
    /\ ASSISTANT_ID = cleanEnv(procEnv.ASSISTANT_ID)
    /\ CLEANUP_OLD = (cleanEnv(procEnv.CLEANUP_OLD) # <<"0">>)
    /\ \E f0 \in OldFiles \cup {NoFile} :
          disk = [p \in DiskPaths |-> IF p = resolveLivePath(procEnv) THEN f0 ELSE NoFile]
    /\ index \in { S \in SUBSET Pool : Cardinality(S) <= MaxIndex }
    /\ index0 = index
    /\ stored = { m.id : m \in index }
    /\ active = act
    /\ pc = [r \in Runs |-> IF r \in act THEN "start" ELSE "idle"]
    /\ files = [r \in Runs |-> <<>>]
    /\ k = [r \in Runs |-> 0]
    /\ toDelete = [r \in Runs |-> <<>>]
    /\ j = [r \in Runs |-> 0]
    /\ resolvedName = [r \in Runs |-> <<>>]
    /\ reported = [r \in Runs |-> -1]
    /\ fileId = [r \in Runs |-> 0]
    /\ elapsed = [r \in Runs |-> 0]
    /\ polls = [r \in Runs |-> 0]
    /\ exitCode = [r \in Runs |-> -1]
    /\ failedAt = [r \in Runs |-> "none"]
    /\ error = [r \in Runs |-> <<>>]
    /\ seen = [r \in Runs |-> {}]
    /\ sent = [r \in Runs |-> <<>>]
    /\ fetches = [r \in Runs |-> <<>>]
    /\ result = NoResult
    /\ crawl = NoCrawl
    /\ response = [r \in Runs |-> NoResponse]
    /\ chunker = NoChunker
    /\ query = NoQuery
    /\ calls = [r \in Runs |-> <<>>]
    /\ delOk = [r \in Runs |-> {}]
    /\ delFail = [r \in Runs |-> {}]
    /\ zeroSeen = FALSE

InitWith(act) == InitOver(act, Envs) /\ input = NoInput

Init == InitWith({1})

(* ------------------------------ actions -------------------------------- *)
\* lines 75 and 99: the error apiV2 and apiFiles throw for a response that is
\* not 2xx, "<method> <pathname> failed: <msg>"
ApiError == <<"request failed">>

Goto(r, l) == pc' = [pc EXCEPT ![r] = l]
\* an entry of the history: the operation, the file id it addresses (0 if
\* none) and whether it returned without an error
Entry(o, i, b) == [op |-> o, id |-> i, ok |-> b]
Call(r, o, i, b) == calls' = [calls EXCEPT ![r] = Append(@, Entry(o, i, b))]

\* main().catch that logs the error and leaves the exit status at 0
Fail_NoExit(r, stage, msg) ==
    /\ Goto(r, "failed")
    /\ exitCode' = [exitCode EXCEPT ![r] = 0]
    /\ failedAt' = [failedAt EXCEPT ![r] = stage]
    /\ error' = [error EXCEPT ![r] = msg]

\* main().catch, lines 323-326: log the error and exit with status 1
Fail(r, stage, msg) ==
    /\ Goto(r, "failed")
    /\ exitCode' = [exitCode EXCEPT ![r] = 1]
    /\ failedAt' = [failedAt EXCEPT ![r] = stage]
    /\ error' = [error EXCEPT ![r] = msg]

\* lines 39-46: the checks of the required settings at module load
ConfigCheck(r) ==
    /\ pc[r] = "start"
    /\ IF OPENAI_API_KEY = <<>> \/ VECTOR_STORE_ID = <<>>
       THEN /\ Goto(r, "failed")
            /\ exitCode' = [exitCode EXCEPT ![r] = 1]
            /\ failedAt' = [failedAt EXCEPT ![r] = "config"]
            /\ error' = [error EXCEPT ![r] = <<"Missing env">>]
       ELSE /\ Goto(r, "link")
            /\ UNCHANGED <<exitCode, failedAt, error>>
    /\ UNCHANGED <<cfgVars, auxVars, disk, index, stored, cleanupVars, fileId, pollVars, calls, zeroSeen>>

\* lines 183-196 and 304: ensureAssistantUsesVectorStore
AssistantLink(r) ==
    /\ pc[r] = "link"
    /\ IF ASSISTANT_ID = <<>>
       THEN /\ Goto(r, "ensure")
            /\ UNCHANGED <<exitCode, failedAt, error, calls>>
       ELSE \E ok \in BOOLEAN :
              /\ Call(r, "assistant", 0, ok)
              /\ IF ok THEN Goto(r, "ensure") /\ UNCHANGED <<exitCode, failedAt, error>>
                       ELSE Fail(r, "link", ApiError)
    /\ UNCHANGED <<cfgVars, auxVars, disk, index, stored, cleanupVars, fileId, pollVars, zeroSeen>>

AfterArtifact == IF CLEANUP_OLD THEN "list" ELSE "upload"

\* lines 133-142: ensureLiveFileExists up to the start of the scraper
EnsureLiveFileExists(r) ==
    /\ pc[r] = "ensure"
    /\ IF disk[liveAbsPath].exists
       THEN Goto(r, AfterArtifact)
       ELSE Goto(r, "scraping")
    /\ UNCHANGED <<cfgVars, auxVars, disk, index, stored, cleanupVars, fileId, pollVars,
                   exitCode, failedAt, error, calls, zeroSeen>>

\* part_002:231-238: the pages the scraper's main requests, in this order
ScrapePages == <<"homepage", "aktuality", "rozhlas", "kalendar">>

\* part_002:82-95, 125-207, 231-238: fetchHtml throws for a response that is
\* not ok and nothing catches it before main().catch, so the requests stop at
\* the first failed one; okAt[n] tells whether the request of page n succeeds
FirstFailed(okAt) ==
    IF \A n \in 1..Len(ScrapePages) : okAt[n] THEN Len(ScrapePages) + 1
    ELSE CHOOSE n \in 1..Len(ScrapePages) : ~okAt[n] /\ \A m \in 1..(n - 1) : okAt[m]

\* the requests the scraper issued: the page and whether it was fetched
ScraperFetches(okAt) ==
    [n \in 1..Min(FirstFailed(okAt), Len(ScrapePages)) |->
        [page |-> ScrapePages[n], ok |-> okAt[n]]]

\* a scraper that goes on to write after a failed request
ScraperExit_Tolerant(okAt) == 0

\* part_002:279-285: status 0 after the artifact is written, 1 from main().catch
ScraperExit(okAt) == IF FirstFailed(okAt) > Len(ScrapePages) THEN 0 ELSE 1

\* part_002:228-285 (the scraper's main) and lines 110-112, 144-146:
\* the scraper exits; with status 0 it has written its output path
ScraperClose(r) ==
    /\ pc[r] = "scraping"
    /\ \E okAt \in [1..Len(ScrapePages) -> BOOLEAN] :
         LET code == ScraperExit(okAt)
             out == resolveOutPath([procEnv EXCEPT !.LIVE_FILE_PATH = liveAbsPath])
             d == IF code = 0 /\ out \in DiskPaths
                  THEN [disk EXCEPT ![out] = [exists |-> TRUE, content |-> ScrapedContent(r)]]
                  ELSE disk
             good == code = 0 /\ d[liveAbsPath].exists
         IN /\ disk' = d
            /\ fetches' = [fetches EXCEPT ![r] = ScraperFetches(okAt)]
            /\ Call(r, "scrape", 0, good)
            /\ IF good
               THEN Goto(r, AfterArtifact) /\ UNCHANGED <<exitCode, failedAt, error>>
               ELSE Fail(r, "artifact", IF code # 0 THEN <<"node scraper failed">>
                                        ELSE <<"LIVE file still missing after scrape">>)
    /\ UNCHANGED <<cfgVars, sent, result, crawl, response, chunker, query, index, stored, cleanupVars, fileId, pollVars, zeroSeen>>

\* the upload naming the file by its whole path
uploadFilename_WholePath(absPath) == absPath

\* line 155: the filename the upload gives the file
uploadFilename(absPath) == basename(absPath)

\* the filename GET /v1/files/{id} reports for a file
FileName(id) ==
    IF id >= 100 THEN uploadFilename(liveAbsPath)
    ELSE IF \E m \in Pool : m.id = id THEN (CHOOSE m \in Pool : m.id = id).name
    ELSE <<>>

\* where cleanupOldLiveFiles continues: the classification loop (233-251),
\* the delete loop (253-261) or the final report (263)
CleanupPc(nFiles, kk, td, jj) ==
    IF kk <= nFiles THEN "classify"
    ELSE IF jj <= Len(td) THEN "delete" ELSE "cleanupdone"

\* lines 229-230: the listing cleanupOldLiveFiles starts with
CleanupList(r) ==
    /\ pc[r] = "list"
    /\ \E ok \in BOOLEAN :
         /\ Call(r, "list", 0, ok)
         /\ IF ok
            THEN LET fs == listVectorStoreFiles(index, CleanupListLimit) IN
                 /\ files' = [files EXCEPT ![r] = fs]
                 /\ k' = [k EXCEPT ![r] = 1]
                 /\ j' = [j EXCEPT ![r] = 1]
                 /\ toDelete' = [toDelete EXCEPT ![r] = <<>>]
                 /\ Goto(r, CleanupPc(Len(fs), 1, <<>>, 1))
                 /\ UNCHANGED <<exitCode, failedAt, error>>
            ELSE /\ Fail(r, "cleanup", ApiError)
                 /\ UNCHANGED <<files, k, j, toDelete>>
    /\ UNCHANGED <<cfgVars, auxVars, disk, index, stored, resolvedName, reported, delOk, delFail, fileId,
                   pollVars, zeroSeen>>

\* pickFilename without the look into f.file
pickFilename_TopOnly(f, res) ==
    IF f.filename # <<>> THEN f.filename
    ELSE IF res = "ok" THEN FileName(pickFileId(f)) ELSE <<>>

\* lines 208-221: pickFilename; res is the outcome of the metadata request
\* ("none" when it is not issued), whose error the catch turns into ""
pickFilename(f, res) ==
    IF f.filename # <<>> THEN f.filename
    ELSE IF f.file.filename # <<>> THEN f.file.filename
    ELSE IF pickFileId(f) = 0 THEN <<>>
    ELSE IF res = "ok" THEN FileName(pickFileId(f)) ELSE <<>>

\* lines 233-251 with pickFilename (208-221): one iteration of the
\* classification loop, including the metadata request it may issue
Classify(r) ==
    /\ pc[r] = "classify"
    /\ LET f == files[r][k[r]]
           embedded == IF f.filename # <<>> THEN f.filename ELSE f.file.filename
           needsMeta == embedded = <<>> /\ pickFileId(f) # 0
       IN \E res \in (IF needsMeta THEN {"ok", "fail"} ELSE {"none"}) :
            LET nm == pickFilename(f, res)
                td == IF isLive(nm, liveFilename) /\ deleteIdOf(f) # 0
                      THEN Append(toDelete[r], [deleteId |-> deleteIdOf(f), filename |-> nm])
                      ELSE toDelete[r]
            IN /\ toDelete' = [toDelete EXCEPT ![r] = td]
               /\ k' = [k EXCEPT ![r] = @ + 1]
               /\ calls' = [calls EXCEPT ![r] =
                             IF needsMeta
                             THEN Append(@, Entry("meta", pickFileId(f), res = "ok"))
                             ELSE @]
               /\ Goto(r, CleanupPc(Len(files[r]), k[r] + 1, td, j[r]))
               /\ resolvedName' = [resolvedName EXCEPT ![r] = nm]
    /\ UNCHANGED <<cfgVars, auxVars, disk, index, stored, files, j, reported, delOk, delFail,
                   fileId, pollVars, exitCode, failedAt, error, zeroSeen>>

\* DELETE /vector_stores/{vs}/files/{id} removing every member that bears a
\* live name instead of the one addressed
RemoveMember_AllLive(idx, id) ==
    { m \in idx : m.id # id /\ ~isLive(m.name, liveFilename) }

\* the effect of DELETE /vector_stores/{vs}/files/{id} (lines 223-226)
RemoveMember(idx, id) == { m \in idx : m.id # id }

\* a delete loop that stops at the first failed request
AfterDelete_Break(r, res) ==
    IF res = "ok" THEN CleanupPc(Len(files[r]), k[r], toDelete[r], j[r] + 1)
    ELSE "cleanupdone"

\* lines 255-260: the error of a delete request is caught, the loop goes on
AfterDelete(r, res) == CleanupPc(Len(files[r]), k[r], toDelete[r], j[r] + 1)

\* a delete loop that repeats a failed request
NextCandidate_Retry(jj, res) == IF res = "ok" THEN jj + 1 ELSE jj

\* line 253: the for-of loop moves to the next candidate whatever the outcome
NextCandidate(jj, res) == jj + 1

\* lines 253-261 with deleteVectorStoreFile (223-226): one iteration of the
\* delete loop; an error of the request is caught and logged
DeleteOne(r) ==
    /\ pc[r] = "delete"
    /\ LET d == toDelete[r][j[r]]
           present == \E m \in index : m.id = d.deleteId
       IN \E res \in (IF present THEN {"ok", "error", "lost"} ELSE {"error"}) :
            \* "lost": the store removed the member but the response was an error
            /\ index' = IF res = "error" THEN index ELSE RemoveMember(index, d.deleteId)
            /\ Goto(r, AfterDelete(r, res))
            /\ delOk' = [delOk EXCEPT ![r] = IF res = "ok" THEN @ \cup {d.deleteId} ELSE @]
            /\ delFail' = [delFail EXCEPT ![r] = IF res = "ok" THEN @ ELSE @ \cup {d.deleteId}]
            /\ Call(r, "delete", d.deleteId, res = "ok")
            /\ j' = [j EXCEPT ![r] = NextCandidate(@, res)]
    /\ zeroSeen' = NoteZero(index')
    /\ UNCHANGED <<cfgVars, auxVars, disk, stored, files, k, toDelete,
                   resolvedName, reported, fileId,
                   pollVars, exitCode, failedAt, error>>

\* line 263: the report that ends cleanupOldLiveFiles
CleanupDone(r) ==
    /\ pc[r] = "cleanupdone"
    /\ reported' = [reported EXCEPT ![r] = Len(toDelete[r])]
    /\ Goto(r, "upload")
    /\ UNCHANGED <<cfgVars, auxVars, disk, index, stored, files, k, toDelete, j,
                   resolvedName, delOk, delFail,
                   fileId, pollVars, exitCode, failedAt, error, calls, zeroSeen>>

\* uploadFileToOpenAI without the check of line 178: a response without a
\* file id is taken as a success
Upload_NoIdCheck(r) ==
    /\ pc[r] = "upload"
    /\ disk' = [disk EXCEPT ![liveAbsPath].content = normalizeText(@)]
    /\ sent' = [sent EXCEPT ![r] = disk'[liveAbsPath].content]
    /\ \E res \in {"ok", "http_error", "no_id"} :
         /\ Call(r, "upload", IF res = "ok" THEN NewFileId(r) ELSE 0, res = "ok")
         /\ stored' = IF res = "http_error" THEN stored ELSE stored \cup {NewFileId(r)}
         /\ IF res # "http_error"
            THEN /\ fileId' = [fileId EXCEPT ![r] = IF res = "ok" THEN NewFileId(r) ELSE 0]
                 /\ Goto(r, "batch")
                 /\ UNCHANGED <<exitCode, failedAt, error>>
            ELSE /\ Fail(r, "upload", IF res = "http_error" THEN <<"Upload failed">>
                                      ELSE <<"Upload succeeded but missing file id.">>)
                 /\ UNCHANGED fileId
    /\ UNCHANGED <<cfgVars, fetches, result, crawl, response, chunker, query, index, cleanupVars, pollVars, zeroSeen>>

\* lines 149-181: uploadFileToOpenAI; the artifact is rewritten normalised
\* before the request is sent
Upload(r) ==
    /\ pc[r] = "upload"
    /\ disk' = [disk EXCEPT ![liveAbsPath].content = normalizeText(@)]
    /\ sent' = [sent EXCEPT ![r] = disk'[liveAbsPath].content]
    /\ \E res \in {"ok", "http_error", "no_id"} :
         /\ Call(r, "upload", IF res = "ok" THEN NewFileId(r) ELSE 0, res = "ok")
         /\ stored' = IF res = "http_error" THEN stored ELSE stored \cup {NewFileId(r)}
         /\ IF res = "ok"
            THEN /\ fileId' = [fileId EXCEPT ![r] = NewFileId(r)]
                 /\ Goto(r, "batch")
                 /\ UNCHANGED <<exitCode, failedAt, error>>
            ELSE /\ Fail(r, "upload", IF res = "http_error" THEN <<"Upload failed">>
                                      ELSE <<"Upload succeeded but missing file id.">>)
                 /\ UNCHANGED fileId
    /\ UNCHANGED <<cfgVars, fetches, result, crawl, response, chunker, query, index, cleanupVars, pollVars, zeroSeen>>

\* the member the vector store holds for a file once a batch names it
VectorStoreMember(id) ==
    IF \E m \in Pool : m.id = id THEN CHOOSE m \in Pool : m.id = id
    ELSE [id |-> id, name |-> FileName(id), fn |-> "none", idf |-> "id"]

\* a batch request that names a second file besides the uploaded one
batchFileIds_TwoFiles(fid) == <<fid, 2>>

\* line 270: the file_ids of the batch request
batchFileIds(fid) == <<fid>>

\* lines 267-277: the batch request of attachFileToVectorStore; a 2xx
\* response makes the file a member of the vector store
BatchCreate(r) ==
    /\ pc[r] = "batch"
    /\ \E res \in {"ok", "http_error", "no_id"} :
         /\ Call(r, "batch", fileId[r], res = "ok")
         /\ index' = IF res = "http_error" THEN index
                     ELSE LET ids == batchFileIds(fileId[r]) IN
                          index \cup { VectorStoreMember(ids[n]) : n \in 1..Len(ids) }
         /\ IF res = "ok"
            THEN /\ elapsed' = [elapsed EXCEPT ![r] = 0]
                 /\ Goto(r, "poll")
                 /\ UNCHANGED <<exitCode, failedAt, error>>
            ELSE /\ Fail(r, "batch", IF res = "http_error" THEN ApiError
                                      ELSE <<"Missing file_batch id.">>)
                 /\ UNCHANGED elapsed
    /\ zeroSeen' = NoteZero(index')
    /\ UNCHANGED <<cfgVars, auxVars, disk, stored, cleanupVars, fileId, polls, seen>>

\* a poll loop without a deadline
Expired_Never(e) == FALSE

\* line 280: Date.now() - start > timeoutMs
Expired(e) == e > timeoutMs

\* line 280: the deadline check at the top of the poll loop
PollTimeout(r) ==
    /\ pc[r] = "poll"
    /\ Expired(elapsed[r])
    /\ Fail(r, "poll", <<"Timeout waiting for vector store indexing.">>)
    /\ UNCHANGED <<cfgVars, auxVars, disk, index, stored, cleanupVars, fileId, pollVars, calls, zeroSeen>>

\* the statuses of a batch that is still being indexed, or reports none
Unfinished == {"in_progress", "unknown"}

\* a poll loop that gives up on "failed" only
FailureStatuses_FailedOnly == {"failed"}

\* line 289: the statuses that end the poll loop with "Indexing failed"
FailureStatuses == {"failed", "cancelled"}

\* a loop that takes a failed batch for an indexed one
IndexingDone_AnyEnd(status) == status \in {"completed", "failed"}

\* line 288: the status that ends the poll loop with a return
IndexingDone(status) == status = "completed"

\* lines 282-291: one status query of the poll loop and the sleep after it;
\* cap bounds the number of queries a behaviour of the model holds
PollQueryUpTo(r, cap) ==
    /\ pc[r] = "poll"
    /\ ~Expired(elapsed[r])
    /\ polls[r] < cap
    /\ polls' = [polls EXCEPT ![r] = @ + 1]
    /\ \E res \in Statuses \cup {"http_error"}, lat \in Latencies :
         /\ Call(r, "status", fileId[r], res \notin FailureStatuses \cup {"http_error"})
         /\ seen' = [seen EXCEPT ![r] = @ \cup ({res} \ Unfinished)]
         /\ CASE IndexingDone(res) ->
                /\ Goto(r, "final")
                /\ UNCHANGED <<elapsed, exitCode, failedAt, error>>
           [] res \in FailureStatuses \cup {"http_error"} ->
                /\ Fail(r, "poll", IF res = "http_error" THEN ApiError
                                    ELSE <<"Indexing failed", res>>)
                /\ UNCHANGED elapsed
           [] OTHER ->
                /\ elapsed' = [elapsed EXCEPT ![r] = @ + lat + pollSleepMs]
                /\ UNCHANGED <<pc, exitCode, failedAt, error>>
    /\ UNCHANGED <<cfgVars, auxVars, disk, index, stored, cleanupVars, fileId, zeroSeen>>

\* the poll loop as the model of a whole run explores it
PollQuery(r) == PollQueryUpTo(r, MaxPolls)

\* lines 318-320: the final listing and the success message
FinalList(r) ==
    /\ pc[r] = "final"
    /\ \E ok \in BOOLEAN :
         /\ Call(r, "finallist", 0, ok)
         /\ IF ok
            THEN /\ Goto(r, "done")
                 /\ exitCode' = [exitCode EXCEPT ![r] = 0]
                 /\ UNCHANGED <<failedAt, error>>
            ELSE Fail(r, "final", ApiError)
    /\ UNCHANGED <<cfgVars, auxVars, disk, index, stored, cleanupVars, fileId, pollVars, zeroSeen>>

Step(r) ==
    \/ ConfigCheck(r)
    \/ AssistantLink(r)
    \/ EnsureLiveFileExists(r)
    \/ ScraperClose(r)
    \/ CleanupList(r)
    \/ Classify(r)
    \/ DeleteOne(r)
    \/ CleanupDone(r)
    \/ Upload(r)
    \/ BatchCreate(r)
    \/ PollTimeout(r)
    \/ PollQuery(r)
    \/ FinalList(r)

Next == \E r \in active : Step(r)

Spec == Init /\ [][Next]_vars

TypeOK ==
    /\ CLEANUP_OLD \in BOOLEAN
    /\ \A r \in Runs : pc[r] \in {"idle", "start", "link", "ensure", "scraping", "list",
                                  "classify", "delete", "cleanupdone", "upload", "batch",
                                  "poll", "final", "done", "failed"}

\* two uncoordinated invocations of the pipeline on the same index and disk
\* (overlapping scheduled runs): the settings are present and cleanup is on
InitConcurrent ==
    /\ InitWith({1, 2})
    /\ procEnv.OPENAI_API_KEY = <<"dq", "key", "dq", "sp">>
    /\ procEnv.VECTOR_STORE_ID = <<"dq", "key", "dq", "sp">>
    /\ procEnv.ASSISTANT_ID = <<>>
    /\ procEnv.CLEANUP_OLD = <<"1">>
    /\ procEnv.LIVE_FILE_PATH = <<>> /\ procEnv.NETLIFY # <<>>
    /\ disk[liveAbsPath].content # <<"OBEC", "-", "LIVE", "gen0">>
    /\ Cardinality(index) <= 1 /\ \A m \in index : m.idf = "id"
SpecConcurrent == InitConcurrent /\ [][Next]_vars

\* the poll loop followed to its end: one run that finds its artifact on disk,
\* has cleanup switched off and attaches to an empty index
InitPoll ==
    /\ InitWith({1})
    /\ OPENAI_API_KEY # <<>> /\ VECTOR_STORE_ID # <<>>
    /\ ~CLEANUP_OLD
    /\ disk[liveAbsPath].exists
    /\ index = {}

\* the most status queries the deadline admits: one per sleep that ends
\* within timeoutMs, and the first (lines 276-291)
QueryLimit == timeoutMs \div pollSleepMs + 1

\* the poll loop with room for one query more than QueryLimit
PollLoop(r) == PollQueryUpTo(r, QueryLimit + 1)

NextPoll ==
    \E r \in active :
       \/ ConfigCheck(r)
       \/ AssistantLink(r)
       \/ EnsureLiveFileExists(r)
       \/ Upload(r)
       \/ BatchCreate(r)
       \/ PollTimeout(r)
       \/ PollLoop(r)
       \/ FinalList(r)

SpecPoll == InitPoll /\ [][NextPoll]_vars

\* the event loop runs the awaiting main to its next await: every request
\* settles and every sleep(2000) ends
SpecPollFair == SpecPoll /\ WF_vars(NextPoll)

\* two invocations of the pipeline one after the other on the same disk and
\* index (two firings of the schedule in one container, or two local runs):
\* the artifact path is missing before the first
InitSequential ==
    /\ InitWith({1, 2})
    /\ OPENAI_API_KEY # <<>> /\ VECTOR_STORE_ID # <<>>
    /\ ASSISTANT_ID = <<>>
    /\ ~disk[liveAbsPath].exists
    /\ Cardinality(index) <= 1

\* the second process starts when the first has exited
NextSequential ==
    \/ Step(1)
    \/ pc[1] \in {"done", "failed"} /\ Step(2)

SpecSequential == InitSequential /\ [][NextSequential]_vars

(* --------------------------- the cron handler -------------------------- *)
\* a handler that answers 200 whatever the exit code
respond_AlwaysOk(code) ==
    [status |-> 200, ok |-> TRUE, keys |-> {"ok", "message"}, text |-> <<"LIVE cron done">>]

\* live-cron.mjs:8-26: the close handler resolves on code 0 and rejects with
\* an Error otherwise; the body is {ok, message} or {ok, error}
respond(code) ==
    IF code = 0
    THEN [status |-> 200, ok |-> TRUE, keys |-> {"ok", "message"}, text |-> <<"LIVE cron done">>]
    ELSE [status |-> 500, ok |-> FALSE, keys |-> {"ok", "error"},
          text |-> <<"node scripts/upload-live-to-openai.mjs failed", "(", "1", ")">>]

\* live-cron.mjs:16-27: the handler answers once the subprocess has closed
HandlerRespond(r) ==
    /\ pc[r] \in {"done", "failed"}
    /\ response[r] = NoResponse
    /\ response' = [response EXCEPT ![r] = respond(exitCode[r])]
    /\ UNCHANGED <<cfgVars, sent, fetches, result, crawl, chunker, query, disk, index, stored, pc, cleanupVars,
                   fileId, pollVars, exitCode, failedAt, error, calls, zeroSeen>>

NextCron == Next \/ \E r \in active : HandlerRespond(r)

SpecCron == Init /\ [][NextCron]_vars

(* --------------------- the scraper's pure functions -------------------- *)
\* part_002:10
BASE == <<"https://", "www.obec-chomutice.cz">>
\* part_002:50-52
NEWS_LIMIT == 20
BROADCAST_LIMIT == 20
EVENTS_LIMIT == 10

\* the characters \s matches, U+00A0 among them
Blanks == {"sp", "nbsp", "nl"}

\* part_002:61-62: every run of white space becomes one space
RECURSIVE CollapseBlanks(_)
CollapseBlanks(s) ==
    IF s = <<>> THEN <<>>
    ELSE IF Head(s) \in Blanks
         THEN <<"sp">> \o CollapseBlanks(StripLeading(Tail(s), Blanks))
         ELSE <<Head(s)>> \o CollapseBlanks(Tail(s))

\* part_002:58-64  cleanText
cleanText(str) == trim(CollapseBlanks(str))

\* part_002:66-71  absUrl
absUrl(href) ==
    IF href = <<>> THEN <<>>
    ELSE IF Head(href) \in {"http://", "https://"} THEN href
    ELSE IF Head(href) = "/" THEN BASE \o href
    ELSE BASE \o <<"/">> \o href

\* part_002:79: the characters of the class [)\]}.,;:!?...]
Punctuation == {")", "]", "}", ".", ",", ";", ":", "!", "?", "ellipsis"}

\* a strip that removes one trailing punctuation character only
stripTrailingPunctuationFromUrl_Once(url) ==
    IF url # <<>> /\ url[Len(url)] \in Punctuation THEN SubSeq(url, 1, Len(url) - 1) ELSE url

\* part_002:75-80  stripTrailingPunctuationFromUrl
stripTrailingPunctuationFromUrl(url) == StripTrailing(url, Punctuation)

\* part_002:131-145: the item pushed for a parsed entry (n stands for its date
\* and perex, which are copied as they are)
ListingItem(e) ==
    [title |-> cleanText(e.title), n |-> e.n,
     url |-> stripTrailingPunctuationFromUrl(absUrl(e.href))]

\* part_002:136: if (!title || !href) return
HasTitleAndLink(e) == cleanText(e.title) # <<>> /\ e.href # <<>>

\* a listing that cuts the parsed entries to the limit before it drops the
\* entries without a title or a link
scrapeListing_CapFirst(entries, limit) ==
    LET cut == SubSeq(entries, 1, Min(limit, Len(entries)))
        kept == SelectSeq(cut, HasTitleAndLink)
    IN [i \in 1..Len(kept) |-> ListingItem(kept[i])]

\* part_002:130-148, 159-177, 188-206: the each loop and the slice of
\* scrapeAktuality, scrapeRozhlas and scrapeKalendar
scrapeListing(entries, limit) ==
    LET kept == SelectSeq(entries, HasTitleAndLink)
    IN [i \in 1..Min(limit, Len(kept)) |-> ListingItem(kept[i])]

ListingFns == {"scrapeAktuality", "scrapeRozhlas", "scrapeKalendar"}
\* part_002:148, 177, 206: the limit each listing slices to
LimitOf(fn) ==
    CASE fn = "scrapeAktuality" -> NEWS_LIMIT
      [] fn = "scrapeRozhlas" -> BROADCAST_LIMIT
      [] fn = "scrapeKalendar" -> EVENTS_LIMIT

\* a parsed .event.readable_item element: the text of its h3.title and the
\* href of its link, <<>> when the element or the attribute is absent
EntryOfKind(kind, n) ==
    [n |-> n,
     title |-> CASE kind \in {"notitle", "neither"} -> <<>>
                 [] kind = "blanktitle" -> <<"sp", "nbsp">>
                 [] OTHER -> <<"sp", "T", "nl", "sp", "x">>,
     href |-> CASE kind \in {"nohref", "neither"} -> <<>>
                [] n % 2 = 1 -> <<"/", "a", ".html">>
                [] OTHER -> <<"a", ".html", ".", ")">>]

BadKinds == {"notitle", "blanktitle", "nohref", "neither"}

\* a listing page: a complete entries, then at most one incomplete entry,
\* then b complete entries
EntriesOf(a, bad, b) ==
    [n \in 1..(a + (IF bad = "none" THEN 0 ELSE 1) + b) |->
        IF n = a + 1 /\ bad # "none" THEN EntryOfKind(bad, n) ELSE EntryOfKind("ok", n)]

\* input is a listing page of one of the three listings
ListingInput(in) ==
    \E f \in ListingFns, a \in 0..MaxRun, bad \in BadKinds \cup {"none"}, b \in 0..MaxRun :
        in = [fn |-> f, entries |-> EntriesOf(a, bad, b)]

\* a test whose length bounds are inclusive
acceptNotice_Inclusive(c) == c.len > 0 /\ c.len >= 15 /\ c.len <= 200 /\ c.kw

\* part_002:114: the test a homepage sentence has to pass; len is text.length
\* and kw the outcome of keywords.test(text)
acceptNotice(c) == c.len > 0 /\ c.len > 15 /\ c.len < 200 /\ c.kw

\* the elements of q from position n on that no earlier position holds
RECURSIVE DedupeFrom(_, _)
DedupeFrom(q, n) ==
    IF n > Len(q) THEN <<>>
    ELSE (IF \E m \in 1..(n - 1) : q[m] = q[n] THEN <<>> ELSE <<q[n]>>) \o DedupeFrom(q, n + 1)

\* a list that keeps the repeated sentences
Dedupe_None(q) == q

\* part_002:119: [...new Set(notices)] keeps the first occurrence of each
Dedupe(q) == DedupeFrom(q, 1)

\* part_002:100-120  extractHomepageNotice over the cleaned texts of the
\* p and li elements
extractHomepageNotice(texts) ==
    LET notices == Dedupe(SelectSeq(texts, acceptNotice))
    IN SubSeq(notices, 1, Min(3, Len(notices)))

\* cleaned texts of p and li elements: the sentence, its length and whether
\* it holds one of the keywords
NoticeSamples ==
    { [s |-> "a", len |-> 16, kw |-> TRUE], [s |-> "b", len |-> 199, kw |-> TRUE],
      [s |-> "c", len |-> 15, kw |-> TRUE], [s |-> "d", len |-> 200, kw |-> TRUE],
      [s |-> "e", len |-> 50, kw |-> FALSE], [s |-> "f", len |-> 14, kw |-> TRUE],
      [s |-> "g", len |-> 201, kw |-> TRUE], [s |-> "h", len |-> 100, kw |-> TRUE],
      [s |-> "i", len |-> 60, kw |-> TRUE] }

\* input is a homepage of at most MaxTexts texts
NoticeInput(in) ==
    \E n \in 0..MaxTexts : \E q \in [1..n -> NoticeSamples] :
        in = [fn |-> "extractHomepageNotice", texts |-> q]

UrlChars == {"a", "/", ".", ")", "ellipsis"}
\* input is a URL of at most MaxUrlLen characters
UrlInput(in) ==
    \E n \in 0..MaxUrlLen : \E u \in [1..n -> UrlChars] :
        in = [fn |-> "stripTrailingPunctuationFromUrl", url |-> u]

ScraperEnv ==
    [OPENAI_API_KEY |-> <<"key">>, VECTOR_STORE_ID |-> <<"key">>, ASSISTANT_ID |-> <<>>,
     CLEANUP_OLD |-> <<>>, LIVE_FILE_PATH |-> <<>>, NETLIFY |-> <<>>,
     AWS_LAMBDA_FUNCTION_NAME |-> <<>>]

InitScraper ==
    /\ InitOver({}, {ScraperEnv})
    /\ ListingInput(input) \/ NoticeInput(input) \/ UrlInput(input)
    /\ index = {}
    /\ \A p \in DiskPaths : ~disk[p].exists

\* the state a pure-function application leaves alone
pureFrame == <<cfgVars, sent, fetches, crawl, response, chunker, query, disk, index, stored, pc, cleanupVars,
               fileId, pollVars, exitCode, failedAt, error, calls, zeroSeen>>

\* part_002:125-207: one of the three listing functions on a fetched page
ApplyScrapeListing ==
    /\ input.fn \in ListingFns
    /\ result' = [fn |-> input.fn, out |-> scrapeListing(input.entries, LimitOf(input.fn))]
    /\ UNCHANGED pureFrame

\* part_002:233: extractHomepageNotice on the homepage
ApplyExtractHomepageNotice ==
    /\ input.fn = "extractHomepageNotice"
    /\ result' = [fn |-> input.fn, out |-> extractHomepageNotice(input.texts)]
    /\ UNCHANGED pureFrame

\* part_002:75-80: the strip applied once, and applied to its own result
ApplyStrip ==
    /\ input.fn = "stripTrailingPunctuationFromUrl"
    /\ result' = [fn |-> input.fn,
                  out |-> stripTrailingPunctuationFromUrl(input.url),
                  again |-> stripTrailingPunctuationFromUrl(
                               stripTrailingPunctuationFromUrl(input.url))]
    /\ UNCHANGED pureFrame

NextScraper == ApplyScrapeListing \/ ApplyExtractHomepageNotice \/ ApplyStrip

SpecScraper == InitScraper /\ [][NextScraper]_vars

(* ------------------------- the site crawler ---------------------------- *)
\* search.mjs:177
MAX_PAGES == 80
\* search.mjs:178
MAX_PDFS == 40
\* search.mjs:170-174: the three start URLs; a URL of the site is a number
START_URLS == <<1, 2, 3>>

\* the pages of the site; page u offers the document MaxUrls + u for
\* download, and a URL of another host is a number below 1
SiteUrls == 1..MaxUrls
PdfOf(u) == MaxUrls + u

\* what a fetch of URL u yields on a sampled site: an HTML page with a long
\* text, one whose text has no more than 200 characters, a response that is
\* not text/html, or a failed request
KindOf(site, u) ==
    CASE site = "allLong" -> "long"
      [] site = "allShort" -> "short"
      [] site = "shortStart" -> IF u <= 3 THEN "short" ELSE "long"
      [] site = "failThirds" -> IF u % 3 = 0 THEN "fail" ELSE "long"
      [] site = "mixedThirds" -> IF u % 3 = 0 THEN "nonhtml" ELSE IF u % 3 = 1 THEN "short" ELSE "long"
      [] site = "homeFails" -> IF u = 1 THEN "fail" ELSE "long"

Sites == {"allLong", "allShort", "shortStart", "failThirds", "mixedThirds", "homeFails"}

\* search.mjs:243-251: what fetchHtml meets at a URL; a document for download
\* is not text/html
FetchOf(site, u) ==
    IF u > MaxUrls THEN "nonhtml" ELSE IF u < 1 THEN "long" ELSE KindOf(site, u)

LinkKinds == {"none", "wide", "broken"}

\* the anchor leads to a page or a document that exists
OnSite(a) == a.u \in 1..(MaxUrls + MaxUrls)

\* the a[href] elements of page u: links to the next three pages (one of them
\* also with a fragment), to the home page, to the page itself with a
\* fragment, to another host, and to the page's document (also with a
\* fragment); on a broken site page 5 holds an href that is no URL
Anchors(links, u) ==
    IF links = "none" THEN <<>>
    ELSE SelectSeq(<< [u |-> u + 1, hash |-> FALSE, host |-> "own"],
                      [u |-> u + 1, hash |-> TRUE, host |-> "own"],
                      [u |-> u + 2, hash |-> FALSE, host |-> "own"],
                      [u |-> u + 3, hash |-> FALSE, host |-> "own"],
                      [u |-> 1, hash |-> FALSE, host |-> "own"],
                      [u |-> u, hash |-> TRUE, host |-> "own"],
                      [u |-> u + 1, hash |-> FALSE, host |-> "other"],
                      [u |-> PdfOf(u), hash |-> FALSE, host |-> "own"],
                      [u |-> PdfOf(u), hash |-> TRUE, host |-> "own"] >>,
                  OnSite)
         \o IF links = "broken" /\ u = 5
            THEN << [u |-> u, hash |-> FALSE, host |-> "invalid"] >> ELSE <<>>

\* search.mjs:257, 288: new URL(href, baseUrl) throws on an href that is no URL
Throws(links, u) == \E n \in 1..Len(Anchors(links, u)) : Anchors(links, u)[n].host = "invalid"

\* search.mjs:224-232  normalizeUrl drops the fragment
normalizeUrl(a) == [a EXCEPT !.hash = FALSE]

\* a filter that lets the links to other hosts through
isSameHost_Any(a) == TRUE

\* search.mjs:215-222  isSameHost
isSameHost(a) == a.host = "own"

\* the string of a normalised URL: the number of the page or document, below
\* 1 for another host
urlOf(a) == IF a.host = "own" THEN a.u ELSE 0 - a.u

\* search.mjs:253-266  extractLinks: the normalised same-host links, each once
extractLinks(links, u) ==
    LET own == SelectSeq([n \in 1..Len(Anchors(links, u)) |-> normalizeUrl(Anchors(links, u)[n])],
                         isSameHost)
        once == Dedupe(own)
    IN [n \in 1..Len(once) |-> urlOf(once[n])]

\* search.mjs:291: the URL ends in .pdf
isPdf(url) == url > MaxUrls

\* search.mjs:283-296  findPdfLinks
findPdfLinks(links, u) == SelectSeq(extractLinks(links, u), isPdf)

CrawlInputs == { [fn |-> "crawl", site |-> s, links |-> l] : s \in Sites, l \in LinkKinds }

InitCrawl ==
    /\ InitOver({}, {ScraperEnv})
    /\ input \in CrawlInputs
    /\ index = {}
    /\ \A p \in DiskPaths : ~disk[p].exists

crawlFrame == <<cfgVars, sent, fetches, response, chunker, query, disk, index, stored, pc, cleanupVars,
                fileId, pollVars, exitCode, failedAt, error, calls, zeroSeen>>

\* search.mjs:299-302
CrawlStart ==
    /\ input.fn = "crawl"
    /\ crawl = NoCrawl
    /\ result = NoResult
    /\ crawl' = [queue |-> START_URLS, seen |-> {}, fetched |-> <<>>, pages |-> <<>>,
                 pdfLinks |-> <<>>, running |-> TRUE, thrown |-> FALSE]
    /\ UNCHANGED <<crawlFrame, result>>

\* search.mjs:321-323: the links that are not in seen, in their order
RECURSIVE Unseen(_, _)
Unseen(links, seenNow) ==
    IF links = <<>> THEN <<>>
    ELSE (IF Head(links) \in seenNow THEN <<>> ELSE <<Head(links)>>) \o Unseen(Tail(links), seenNow)

\* search.mjs:319: pdfLinks.add(p) for each p, a Set in insertion order
RECURSIVE AddAll(_, _)
AddAll(set, new) ==
    IF new = <<>> THEN set
    ELSE AddAll(IF \E n \in 1..Len(set) : set[n] = Head(new) THEN set ELSE Append(set, Head(new)),
                Tail(new))

\* search.mjs:304
LoopGoesOn == crawl.queue # <<>> /\ Len(crawl.pages) < MAX_PAGES

\* search.mjs:304-324: one iteration of the while loop; fetched is the
\* history of the URLs handed to fetchHtml
CrawlStep ==
    /\ crawl.running
    /\ LoopGoesOn
    /\ \E url \in {Head(crawl.queue)} :
       \E found \in {extractLinks(input.links, url)}, pdfs \in {findPdfLinks(input.links, url)} :
       LET rest == Tail(crawl.queue)
           kind == FetchOf(input.site, url)
           seenNow == crawl.seen \cup {url}
           kept == IF kind = "long" THEN Append(crawl.pages, url) ELSE crawl.pages
           links == Unseen(found, seenNow)
       IN crawl' =
            IF url \in crawl.seen
            THEN [crawl EXCEPT !.queue = rest]
            ELSE IF kind \in {"fail", "nonhtml"}
            THEN [crawl EXCEPT !.queue = rest, !.seen = seenNow,
                               !.fetched = Append(crawl.fetched, url)]
            ELSE IF Throws(input.links, url)
            THEN [crawl EXCEPT !.queue = rest, !.seen = seenNow,
                               !.fetched = Append(crawl.fetched, url),
                               !.pages = kept, !.running = FALSE, !.thrown = TRUE]
            ELSE [crawl EXCEPT !.queue = rest \o links, !.seen = seenNow,
                               !.fetched = Append(crawl.fetched, url),
                               !.pages = kept,
                               !.pdfLinks = AddAll(@, pdfs)]
    /\ UNCHANGED <<crawlFrame, result>>

\* search.mjs:326
CrawlReturn ==
    /\ crawl.running
    /\ ~LoopGoesOn
    /\ crawl' = [crawl EXCEPT !.running = FALSE]
    /\ result' = [fn |-> "crawl", out |-> crawl.pages,
                  pdfs |-> SubSeq(crawl.pdfLinks, 1, Min(MAX_PDFS, Len(crawl.pdfLinks)))]
    /\ UNCHANGED crawlFrame

NextCrawl == CrawlStart \/ CrawlStep \/ CrawlReturn

SpecCrawl == InitCrawl /\ [][NextCrawl]_vars

\* each awaited fetch settles, so the loop takes its next step
SpecCrawlFair == SpecCrawl /\ WF_vars(NextCrawl)

(* ------------------------------ chunkText ------------------------------ *)
\* search.mjs:179-180
CHUNK_SIZE == 1200
CHUNK_OVERLAP == 150

\* search.mjs:190-197  cleanText of the knowledge-base builder: the white
\* space around the text goes (trim); a text is the number of white-space
\* characters before and after its body and the length of the body, whose
\* inner white space is already single
kbCleanText(text) == text.body

\* an offset that starts the next chunk where this one ended
nextOffset_NoOverlap(end) == end

\* search.mjs:209-210: the offset of the next chunk
nextOffset(end) == IF end - CHUNK_OVERLAP < 0 THEN 0 ELSE end - CHUNK_OVERLAP

\* input is a text of at most MaxBody characters between its outer white space
ChunkInput(in) ==
    \E lead \in 0..1, body \in 0..MaxBody, trail \in 0..1 :
        in = [fn |-> "chunkText", text |-> [lead |-> lead, body |-> body, trail |-> trail]]

InitChunk ==
    /\ InitOver({}, {ScraperEnv})
    /\ ChunkInput(input)
    /\ index = {}
    /\ \A p \in DiskPaths : ~disk[p].exists

chunkFrame == <<cfgVars, sent, fetches, result, crawl, response, query, disk, index, stored, pc,
                cleanupVars, fileId, pollVars, exitCode, failedAt, error, calls, zeroSeen>>

\* search.mjs:200-203: the text is cleaned; an empty one returns no chunks
ChunkStart ==
    /\ input.fn = "chunkText"
    /\ chunker.at = "idle"
    /\ LET t == kbCleanText(input.text)
       IN chunker' = [t |-> t, i |-> 0, chunks |-> <<>>,
                      at |-> IF t = 0 THEN "returned" ELSE "loop"]
    /\ UNCHANGED chunkFrame

\* search.mjs:204-212: the loop test and one iteration; a chunk is the slice
\* of t from offset from up to offset to
ChunkStep ==
    /\ chunker.at = "loop"
    /\ IF chunker.i < chunker.t
       THEN LET end == Min(chunker.t, chunker.i + CHUNK_SIZE)
            IN chunker' = [chunker EXCEPT
                             !.chunks = Append(@, [from |-> chunker.i, to |-> end]),
                             !.i = nextOffset(end),
                             !.at = IF end = chunker.t THEN "returned" ELSE "loop"]
       ELSE chunker' = [chunker EXCEPT !.at = "returned"]
    /\ UNCHANGED chunkFrame

NextChunk == ChunkStart \/ ChunkStep

SpecChunk == InitChunk /\ [][NextChunk]_vars

\* the event loop runs the synchronous function to its end
SpecChunkFair == SpecChunk /\ WF_vars(NextChunk)

(* --------------------------- the query handler ------------------------- *)
\* search.mjs:104 timeoutMs (live-cron.mjs:41 TIMEOUT_MS)
TIMEOUT_MS == 25000
\* search.mjs:112 (live-cron.mjs:40 POLL_INTERVAL_MS)
POLL_INTERVAL_MS == 800

\* the statuses the API reports for a run
RunStatuses == {"queued", "in_progress", "completed", "failed", "cancelled", "expired",
                "requires_action"}
\* the time a status request takes, in ms
QueryLatencies == {0, 450}

\* a request: its method, whether the two settings are set, what the body
\* holds as message, and whether it names a thread
Requests ==
    [fn : {"handler"}, method : {"OPTIONS", "GET", "POST"}, apiKey : BOOLEAN,
     assistantId : BOOLEAN, message : {"absent", "empty", "number", "text"}, thread : BOOLEAN]

\* a handler that takes whatever the body holds for a message
validMessage_Any(m) == TRUE

\* search.mjs:47: if (!message || typeof message !== "string")
validMessage(m) == m = "text"

InitQuery ==
    /\ InitOver({}, {ScraperEnv})
    /\ input \in Requests
    /\ index = {}
    /\ \A p \in DiskPaths : ~disk[p].exists

queryFrame == <<cfgVars, sent, fetches, result, crawl, response, chunker, disk, index, stored, pc,
                cleanupVars, fileId, pollVars, exitCode, failedAt, error, calls, zeroSeen>>

\* json(status, obj): the handler returns
Respond(code, ok, msg) ==
    [query EXCEPT !.at = "responded", !.code = code, !.ok = ok, !.error = msg]
\* a fetch the handler awaits
Asked(q, op) == [q EXCEPT !.calls = Append(@, op)]

\* search.mjs:29-49: the checks before the first remote call
QueryReceive ==
    /\ input.fn = "handler"
    /\ query.at = "idle"
    /\ query' =
         IF input.method = "OPTIONS" THEN Respond(204, FALSE, "")
         ELSE IF input.method # "POST" THEN Respond(405, FALSE, "Method not allowed")
         ELSE IF ~input.apiKey THEN Respond(500, FALSE, "Missing OPENAI_API_KEY")
         ELSE IF ~input.assistantId THEN Respond(500, FALSE, "Missing ASSISTANT_ID")
         ELSE IF ~validMessage(input.message) THEN Respond(400, FALSE, "Missing message")
         ELSE [query EXCEPT !.at = IF input.thread THEN "message" ELSE "thread"]
    /\ UNCHANGED queryFrame

\* search.mjs:61-73: POST /threads
QueryThread ==
    /\ query.at = "thread"
    /\ \E ok \in BOOLEAN :
         query' = IF ok THEN [Asked(query, "threads") EXCEPT !.at = "message"]
                  ELSE Asked(Respond(500, FALSE, "Failed to create thread"), "threads")
    /\ UNCHANGED queryFrame

\* search.mjs:76-87: POST /threads/{id}/messages
QueryMessage ==
    /\ query.at = "message"
    /\ \E ok \in BOOLEAN :
         query' = IF ok THEN [Asked(query, "message") EXCEPT !.at = "run"]
                  ELSE Asked(Respond(500, FALSE, "Failed to add message"), "message")
    /\ UNCHANGED queryFrame

\* search.mjs:90-106: POST /threads/{id}/runs; the response holds a status
QueryRun ==
    /\ query.at = "run"
    /\ \E res \in RunStatuses \cup {"http_error"} :
         query' = IF res = "http_error"
                  THEN Asked(Respond(500, FALSE, "Failed to create run"), "run")
                  ELSE [Asked(query, "run") EXCEPT !.at = "poll", !.created = res,
                                                   !.status = res, !.elapsed = 0]
    /\ UNCHANGED queryFrame

\* search.mjs:108
Unsettled(status) == status \in {"queued", "in_progress"}

\* search.mjs:108-129: one iteration of the poll loop: the deadline test, the
\* sleep, the status request and the test for requires_action
QueryPoll ==
    /\ query.at = "poll"
    /\ Unsettled(query.status)
    /\ IF query.elapsed > TIMEOUT_MS
       THEN query' = Respond(504, FALSE, "Timeout waiting for response")
       ELSE \E res \in RunStatuses \cup {"http_error"}, lat \in QueryLatencies :
              query' =
                IF res = "http_error"
                THEN Asked(Respond(500, FALSE, "Failed to retrieve run"), "check")
                ELSE IF res = "requires_action"
                THEN [Asked(Respond(501, FALSE, "Run requires_action (unexpected)."), "check")
                        EXCEPT !.status = res, !.seen = @ \cup {res}]
                ELSE [Asked(query, "check") EXCEPT
                        !.status = res, !.seen = @ \cup {res},
                        !.elapsed = @ + POLL_INTERVAL_MS + lat]
    /\ UNCHANGED queryFrame

\* search.mjs:131-133: after the loop, a status that is not completed
QueryVerdict ==
    /\ query.at = "poll"
    /\ ~Unsettled(query.status)
    /\ query' = IF query.status # "completed" THEN Respond(500, FALSE, "Run failed")
                ELSE [query EXCEPT !.at = "list"]
    /\ UNCHANGED queryFrame

\* search.mjs:136-157: GET /threads/{id}/messages and the answer
QueryList ==
    /\ query.at = "list"
    /\ \E ok \in BOOLEAN :
         query' = IF ok THEN Asked(Respond(200, TRUE, ""), "messages")
                  ELSE Asked(Respond(500, FALSE, "Failed to list messages"), "messages")
    /\ UNCHANGED queryFrame

NextQuery ==
    QueryReceive \/ QueryThread \/ QueryMessage \/ QueryRun \/ QueryPoll \/ QueryVerdict
    \/ QueryList

SpecQuery == InitQuery /\ [][NextQuery]_vars

\* every awaited request settles and every sleep ends
SpecQueryFair == SpecQuery /\ WF_vars(NextQuery)

(* ------------------- path resolution as a function --------------------- *)
\* values of LIVE_FILE_PATH: unset, blank, quotes only, relative, quoted
\* relative, absolute, absolute after a space
OverrideSamples ==
    { <<>>, <<"sp">>, <<"dq", "dq">>, <<"data", ".txt">>, <<"dq", "data", ".txt", "dq">>,
      <<"/", "srv", "/", "live", ".txt">>, <<"sp", "/", "srv", "/", "live", ".txt">> }
MarkerSamples == { <<>>, <<"true">>, <<"sp">> }

PathInputs ==
    { [OPENAI_API_KEY |-> <<"key">>, VECTOR_STORE_ID |-> <<"key">>, ASSISTANT_ID |-> <<>>,
       CLEANUP_OLD |-> <<>>, LIVE_FILE_PATH |-> o, NETLIFY |-> n,
       AWS_LAMBDA_FUNCTION_NAME |-> a] :
      o \in OverrideSamples, n \in MarkerSamples, a \in MarkerSamples }

InitPaths ==
    /\ InitOver({}, PathInputs)
    /\ input = NoInput
    /\ index = {}
    /\ \A p \in DiskPaths : ~disk[p].exists

\* upload-live-to-openai.mjs:296: the orchestrator resolves its artifact path
ApplyResolveLivePath ==
    /\ result' = [fn |-> "resolveLivePath", out |-> resolveLivePath(procEnv)]
    /\ UNCHANGED <<cfgVars, sent, fetches, crawl, response, chunker, query, disk, index, stored, pc, cleanupVars, fileId,
                   pollVars, exitCode, failedAt, error, calls, zeroSeen>>

\* part_002:47: the scraper resolves its output path
ApplyResolveOutPath ==
    /\ result' = [fn |-> "resolveOutPath", out |-> resolveOutPath(procEnv)]
    /\ UNCHANGED <<cfgVars, sent, fetches, crawl, response, chunker, query, disk, index, stored, pc, cleanupVars, fileId,
                   pollVars, exitCode, failedAt, error, calls, zeroSeen>>

\* upload-live-to-openai.mjs:104-114, 142: the environment runNode gives the
\* scraper, the override set to the orchestrator's path
childEnv(e) == [e EXCEPT !.LIVE_FILE_PATH = resolveLivePath(e)]

\* part_002:47 in the scraper ensureLiveFileExists starts
ApplyChildOutPath ==
    /\ result' = [fn |-> "childOutPath", out |-> resolveOutPath(childEnv(procEnv))]
    /\ UNCHANGED <<cfgVars, sent, fetches, crawl, response, chunker, query, disk, index, stored, pc, cleanupVars,
                   fileId, pollVars, exitCode, failedAt, error, calls, zeroSeen>>

NextPaths == ApplyResolveLivePath \/ ApplyResolveOutPath \/ ApplyChildOutPath

SpecPaths == InitPaths /\ [][NextPaths]_vars

(* ======================================================================= *)
(* Properties                                                              *)
(* ======================================================================= *)
Range(q) == { q[n] : n \in 1..Len(q) }
Ops(r) == { c.op : c \in Range(calls[r]) }

\* the live-document predicate of the specification: the filename equals the
\* live filename or contains the live marker (case-insensitively)
LiveDocument(name) ==
    LET lower == toLowerCase(name) IN
    \/ lower = toLowerCase(liveFilename)
    \/ includes(lower, <<"live", "_obec_chomutice">>)
    \/ includes(lower, <<"10_", "live">>)

LiveDocs(idx) == { m \in idx : LiveDocument(m.name) }
\* the live copies that were indexed before the first run started
StaleLive == LiveDocs(index0)
\* the copy run r uploaded is a member of the index
NewIn(r, idx) == \E m \in idx : m.id = NewFileId(r)

\* the reasons for which cleanup leaves a stale live copy in the index: its
\* delete request failed, its filename could not be resolved, the listing
\* record carries no id, or it lies beyond the one page cleanup lists
DeleteFailed(r, m) == Entry("delete", m.id, FALSE) \in Range(calls[r])
Unresolved(r, m) == Entry("meta", m.id, FALSE) \in Range(calls[r])
NoRecordId(m) == m.idf = "none"
NotListed(m) == Cardinality({ x \in index0 : x.id < m.id }) >= CleanupListLimit
Excused(r, m) ==
    DeleteFailed(r, m) \/ Unresolved(r, m) \/ NoRecordId(m) \/ NotListed(m)

\* C1 (as stated): after a run that ends in success with cleanup enabled the
\* index contains exactly one file whose filename matches the live-document
\* predicate.
C1_Original ==
    (pc[1] = "done" /\ CLEANUP_OLD) => Cardinality(LiveDocs(index)) = 1

\* C1 (amended): after a run that ends in success with cleanup enabled the
\* live documents of the index are the copy this run uploaded and no stale
\* copy except those cleanup could not remove (delete request failed,
\* filename unresolved, no id in the record, not listed); so exactly one when
\* there is no such stale copy.
C1_Amended ==
    (pc[1] = "done" /\ CLEANUP_OLD) =>
        /\ \E m \in LiveDocs(index) : m.id = fileId[1] /\ fileId[1] = NewFileId(1)
        /\ \A m \in LiveDocs(index) :
              m.id = NewFileId(1) \/ (m \in StaleLive /\ Excused(1, m))
        /\ (\A m \in StaleLive : ~Excused(1, m)) => Cardinality(LiveDocs(index)) = 1

C1_Witness ==
    /\ pc[1] = "done" /\ CLEANUP_OLD
    /\ Cardinality(StaleLive) >= 2
    /\ Cardinality(delOk[1]) >= 2
    /\ Cardinality(LiveDocs(index)) = 1

\* C2 (as stated): with cleanup enabled the index never contains a stale live
\* copy together with the copy uploaded by this run.
C2_Original ==
    CLEANUP_OLD => ~(NewIn(1, index) /\ StaleLive \cap index # {})

\* C2 (amended): with cleanup enabled, cleanup has finished before the new
\* file is attached, and a stale live copy is in the index together with the
\* copy uploaded by this run only if cleanup could not remove it (delete
\* request failed, filename unresolved, no id in the record, not listed).
C2_Amended ==
    (CLEANUP_OLD /\ NewIn(1, index)) =>
        /\ reported[1] >= 0
        /\ \A m \in StaleLive \cap index : Excused(1, m)

C2_Witness ==
    /\ CLEANUP_OLD /\ NewIn(1, index) /\ pc[1] = "poll"
    /\ StaleLive # {} /\ StaleLive \cap index = {}

\* C3 (as stated): if the index holds exactly one live copy when a run
\* (with cleanup enabled) starts, it holds exactly one live copy at every
\* later point.
C3_Original ==
    (CLEANUP_OLD /\ Cardinality(StaleLive) = 1) => Cardinality(LiveDocs(index)) = 1

\* C3 (amended): if the index holds exactly one live copy when a run starts,
\* then at every later point its live copies are among that stale copy and
\* the copy this run attached; the stale copy leaves only by a delete request
\* of cleanup and the new copy enters only by the batch request.  After a run
\* that aborts because the delete succeeded and the upload (or the batch
\* request) failed the index holds no live copy; after a run whose delete
\* succeeded and whose poll failed it holds one, the new copy.
C3_Amended ==
    Cardinality(StaleLive) = 1 =>
        LET old == CHOOSE m \in StaleLive : TRUE
            n == Cardinality(LiveDocs(index))
        IN /\ \A m \in LiveDocs(index) : m = old \/ m.id = NewFileId(1)
           /\ old \notin index => \E c \in Range(calls[1]) : c.op = "delete" /\ c.id = old.id
           /\ NewIn(1, index) => "batch" \in Ops(1)
           /\ (pc[1] = "failed" /\ failedAt[1] = "upload" /\ old.id \in delOk[1]) => n = 0
           /\ (pc[1] = "failed" /\ Entry("batch", NewFileId(1), FALSE) \in Range(calls[1])
                 /\ ~NewIn(1, index) /\ old.id \in delOk[1]) => n = 0
           /\ (pc[1] = "failed" /\ failedAt[1] = "poll" /\ old.id \in delOk[1]) => n = 1

C3_Witness ==
    /\ Cardinality(StaleLive) = 1
    /\ pc[1] = "failed" /\ failedAt[1] = "upload"
    /\ StaleLive \subseteq { m \in index0 : m.id \in delOk[1] }
    /\ LiveDocs(index) = {}

\* the id a listing record carries, wherever it carries it
RecordId(f) == IF f.id # 0 THEN f.id ELSE IF f.file_id # 0 THEN f.file_id ELSE f.file.id
ListedIds(r) == { RecordId(f) : f \in Range(files[r]) }

\* C4: nothing serialises two overlapping runs.  Each run deletes only members
\* of its own listing, so when both runs have finished successfully and
\* neither listing contained the copy of the other run, both new copies are in
\* the index: two live copies.
C4_TwoLiveCopies ==
    /\ \A r \in active : \A c \in Range(calls[r]) :
          c.op = "delete" => c.id \in ListedIds(r)
    /\ (pc[1] = "done" /\ pc[2] = "done"
          /\ NewFileId(2) \notin ListedIds(1) /\ NewFileId(1) \notin ListedIds(2))
       => (NewIn(1, index) /\ NewIn(2, index) /\ Cardinality(LiveDocs(index)) >= 2)

\* both runs listed the one stale copy, the index was empty of live copies in
\* between, and both new copies are indexed at the end
C4_Witness ==
    /\ pc[1] = "done" /\ pc[2] = "done"
    /\ Cardinality(StaleLive) = 1 /\ StaleLive \cap index = {}
    /\ zeroSeen
    /\ Cardinality(LiveDocs(index)) = 2

Blank(v) == \A n \in 1..Len(v) : v[n] \in QuoteOrSpace

\* C5: if the API key or the index id is empty after trimming white space and
\* surrounding quotes, the process issues no remote call, does not start the
\* scraper, changes neither the index nor the disk, and can only exit with
\* status 1.
C5_MissingConfig ==
    (Blank(procEnv.OPENAI_API_KEY) \/ Blank(procEnv.VECTOR_STORE_ID)) =>
        \A r \in active :
            /\ calls[r] = <<>>
            /\ pc[r] \in {"start", "failed"}
            /\ pc[r] = "failed" => (exitCode[r] = 1 /\ failedAt[r] = "config")
            /\ index = index0
            /\ \A q \in DiskPaths : disk[q].content \notin { ScrapedContent(x) : x \in Runs }

C5_Witness ==
    /\ procEnv.OPENAI_API_KEY = <<"sp", "dq", "dq", "sp">>
    /\ ~Blank(procEnv.VECTOR_STORE_ID)
    /\ pc[1] = "failed" /\ exitCode[1] = 1

Rank(op) ==
    CASE op = "assistant" -> 1
      [] op = "scrape" -> 2
      [] op \in {"list", "meta", "delete"} -> 3
      [] op = "upload" -> 4
      [] op = "batch" -> 5
      [] op = "status" -> 6
      [] op = "finallist" -> 7

\* C6: within one run the operations are issued in the order assistant link,
\* artifact generation, cleanup, upload, batch creation, poll, final listing;
\* an operation of a later stage is issued only after the operations of the
\* earlier stages returned; no delete follows the upload, and the batch is
\* created only with the file id a successful upload returned.
C6_StageOrder ==
    \A r \in active :
        LET c == calls[r] IN
        /\ \A a, b \in 1..Len(c) : a < b =>
              /\ Rank(c[a].op) <= Rank(c[b].op)
              /\ Rank(c[a].op) < Rank(c[b].op) => c[a].ok \/ c[a].op \in {"meta", "delete"}
        /\ \A b \in 1..Len(c) : c[b].op = "batch" =>
              /\ c[b].id # 0
              /\ \E a \in 1..(b - 1) : c[a] = Entry("upload", c[b].id, TRUE)
        /\ "upload" \in Ops(r) =>
              /\ disk[liveAbsPath].exists
              /\ CLEANUP_OLD => reported[r] >= 0

C6_Witness ==
    /\ pc[1] = "done"
    /\ Ops(1) = {"assistant", "scrape", "list", "meta", "delete", "upload", "batch",
                 "status", "finallist"}

FatalOps == {"assistant", "scrape", "list", "upload", "batch", "status", "finallist"}

\* C7: when an operation of a fatal stage fails, it is the last operation of
\* the run, the run is over and its exit status is 1; a failed run takes no
\* further step.  If artifact generation fails no indexed file is deleted; if
\* the upload fails no indexing batch is created.
C7_FatalAborts ==
    \A r \in active :
        LET c == calls[r] IN
        /\ \A n \in 1..Len(c) : (c[n].op \in FatalOps /\ ~c[n].ok) =>
              (n = Len(c) /\ pc[r] = "failed" /\ exitCode[r] = 1)
        /\ pc[r] = "failed" => (exitCode[r] = 1 /\ ~ENABLED Step(r))
        /\ Entry("scrape", 0, FALSE) \in Range(c) => ("delete" \notin Ops(r) /\ index = index0)
        /\ Entry("upload", 0, FALSE) \in Range(c) => ("batch" \notin Ops(r) /\ ~NewIn(r, index))

C7_Witness ==
    /\ pc[1] = "failed" /\ failedAt[1] = "upload"
    /\ "delete" \in Ops(1)
    /\ Entry("upload", 0, FALSE) \in Range(calls[1])

DeleteCalls(r) == SelectSeq(calls[r], LAMBDA c : c.op = "delete")

\* C8: a failed delete request does not stop the run: once cleanup has
\* reported, one delete request has been issued for every candidate, in the
\* order of the list, whatever the outcome of the earlier ones; and a run
\* never fails on a delete request.
C8_DeleteFailureSkipped ==
    \A r \in active :
        /\ reported[r] >= 0 =>
              /\ Len(DeleteCalls(r)) = Len(toDelete[r])
              /\ \A n \in 1..Len(toDelete[r]) : DeleteCalls(r)[n].id = toDelete[r][n].deleteId
        /\ (calls[r] # <<>> /\ calls[r][Len(calls[r])].op = "delete") => pc[r] # "failed"

\* two stale copies, the first delete fails, the second succeeds, the run succeeds
C8_Witness ==
    /\ pc[1] = "done"
    /\ Len(DeleteCalls(1)) = 2
    /\ ~DeleteCalls(1)[1].ok /\ DeleteCalls(1)[2].ok

\* C9 (as stated): the number of deleted files cleanup reports is the number
\* of delete requests that succeeded.
C9_ReportedCount ==
    \A r \in active :
        reported[r] >= 0 =>
            reported[r] = Len(SelectSeq(DeleteCalls(r), LAMBDA c : c.ok))

LastCall(r) == calls[r][Len(calls[r])]
Count(r, o, i) ==
    Cardinality({ n \in 1..Len(calls[r]) : calls[r][n].op = o /\ calls[r][n].id = i })
CountOp(r, o) == Cardinality({ n \in 1..Len(calls[r]) : calls[r][n].op = o })

\* C11: the batch a run creates names exactly one file, the one that run's
\* upload returned: leaving the batch request, the run has logged a successful
\* upload of its file id, the request addressed that id, and the only member
\* the index may gain is the one with that id; a response without a batch id
\* fails the run with "Missing file_batch id." before any status query.
C11_BatchNamesUpload ==
    /\ [][\A r \in active :
            (pc[r] = "batch" /\ pc'[r] # "batch") =>
               /\ fileId[r] = NewFileId(r)
               /\ Entry("upload", fileId[r], TRUE) \in Range(calls[r])
               /\ Len(calls'[r]) = Len(calls[r]) + 1
               /\ calls'[r][Len(calls'[r])].op = "batch"
               /\ calls'[r][Len(calls'[r])].id = fileId[r]
               /\ index' \ index \subseteq { m \in index' : m.id = fileId[r] }
               /\ pc'[r] = IF calls'[r][Len(calls'[r])].ok THEN "poll" ELSE "failed"]_vars
    /\ [](\A r \in active :
            failedAt[r] = "batch" =>
               /\ pc[r] = "failed" /\ exitCode[r] = 1
               /\ "status" \notin Ops(r) /\ polls[r] = 0 /\ seen[r] = {}
               /\ LastCall(r) = Entry("batch", fileId[r], FALSE))

\* a response without a batch id: the file was attached, the run failed
C11_Witness ==
    /\ pc[1] = "failed" /\ failedAt[1] = "batch"
    /\ error[1] = <<"Missing file_batch id.">>
    /\ NewIn(1, index)
    /\ index0 # {}

(* ----------------------------------------------------------------------- *)
\* C12: once a status query has returned "failed" or "cancelled", the run has
\* failed in the poll stage with the error "Indexing failed: <that status>"
\* and exit status 1, it has not reported success, that query is the last
\* operation of its history (no later status query, no later batch request),
\* and no step of the run is enabled.
C12_IndexingFailed ==
    \A r \in active : \A st \in {"failed", "cancelled"} :
        st \in seen[r] =>
           /\ pc[r] = "failed" /\ failedAt[r] = "poll" /\ exitCode[r] = 1
           /\ error[r] = <<"Indexing failed", st>>
           /\ "finallist" \notin Ops(r)
           /\ LastCall(r) = Entry("status", fileId[r], FALSE)
           /\ Cardinality({ n \in 1..Len(calls[r]) : calls[r][n].op = "batch" }) = 1
           /\ ~ENABLED Step(r)

\* the second status query returned "cancelled" after a non-terminal first
C12_Witness ==
    /\ "cancelled" \in seen[1]
    /\ polls[1] = 2 /\ elapsed[1] = pollSleepMs
    /\ error[1] = <<"Indexing failed", "cancelled">>

(* ----------------------------------------------------------------------- *)
\* C13: a poll loop whose status queries all return non-terminal statuses
\* ("in_progress", or "unknown" for a missing one) ends with the error
\* "Timeout waiting for vector store indexing." once the elapsed time exceeds
\* timeoutMs; it never reports success without a "completed" status, it issues
\* at most timeoutMs / pollSleepMs + 1 status queries, and it always ends.
C13_PollTerminates ==
    /\ [](\A r \in active :
            /\ polls[r] <= QueryLimit
            /\ "completed" \notin seen[r] =>
                  (pc[r] \notin {"final", "done"} /\ "finallist" \notin Ops(r))
            /\ ("status" \in Ops(r) /\ seen[r] = {} /\ pc[r] # "poll") =>
                  /\ pc[r] = "failed" /\ failedAt[r] = "poll" /\ exitCode[r] = 1
                  /\ error[r] = <<"Timeout waiting for vector store indexing.">>
                  /\ elapsed[r] > timeoutMs)
    /\ \A r \in Runs : (pc[r] = "poll") ~> (pc[r] \in {"final", "failed"})

\* the deadline passed after QueryLimit queries that returned no terminal status
C13_Witness ==
    /\ pc[1] = "failed" /\ polls[1] = QueryLimit
    /\ seen[1] = {} /\ CountOp(1, "status") = QueryLimit
    /\ error[1] = <<"Timeout waiting for vector store indexing.">>

(* ----------------------------------------------------------------------- *)

\* C14: no failed remote operation is retried: a run issues at most one upload
\* request and at most one batch request, at most one delete request per
\* file id, and a failed upload, batch request or status query is the last
\* operation of the run, which has then failed.
C14_NoRetry ==
    \A r \in active :
       /\ CountOp(r, "upload") <= 1
       /\ CountOp(r, "batch") <= 1
       /\ \A n \in 1..Len(calls[r]) :
            LET c == calls[r][n] IN
            /\ c.op = "delete" => Count(r, "delete", c.id) = 1
            /\ (c.op \in {"upload", "batch", "status"} /\ ~c.ok) =>
                  (n = Len(calls[r]) /\ pc[r] = "failed" /\ ~ENABLED Step(r))

\* a run that went on to success after one delete request failed and another
\* succeeded
C14_Witness ==
    /\ pc[1] = "done"
    /\ delFail[1] # {} /\ delOk[1] # {}
    /\ CountOp(1, "delete") = 2

(* ----------------------------------------------------------------------- *)
\* C15: ensureLiveFileExists starts the scraper at most once, and only for an
\* artifact path that was missing; the scraper writes the orchestrator's
\* artifact path and no other; after a scraper run that ensureLiveFileExists
\* accepted the path exists with non-empty content; after one it rejected
\* (exit status not 0, or the path still missing) the run has failed in the
\* artifact stage with exit status 1 and has issued no upload.
C15_EnsureExists ==
    \A r \in active :
       /\ CountOp(r, "scrape") <= 1
       /\ \A p \in DiskPaths \ {liveAbsPath} : ~disk[p].exists
       /\ (disk[liveAbsPath].exists /\ "gen0" \in Range(disk[liveAbsPath].content)) =>
             "scrape" \notin Ops(r)
       /\ Entry("scrape", 0, TRUE) \in Range(calls[r]) =>
             /\ disk[liveAbsPath].exists
             /\ disk[liveAbsPath].content # <<>>
             /\ Len(fetches[r]) = Len(ScrapePages)
             /\ \A n \in 1..Len(fetches[r]) : fetches[r][n].ok
       /\ Entry("scrape", 0, FALSE) \in Range(calls[r]) =>
             /\ pc[r] = "failed" /\ failedAt[r] = "artifact" /\ exitCode[r] = 1
             /\ LastCall(r) = Entry("scrape", 0, FALSE)
             /\ "upload" \notin Ops(r) /\ sent[r] = <<>> /\ fileId[r] = 0

\* the scraper wrote the overridden artifact path and the run went on to upload
C15_Witness ==
    /\ Entry("scrape", 0, TRUE) \in Range(calls[1])
    /\ procEnv.LIVE_FILE_PATH # <<>>
    /\ disk[liveAbsPath].exists
    /\ "upload" \in Ops(1)

(* ----------------------------------------------------------------------- *)
\* the mark of the artifact the scraper generates during run r
GeneratedBy(r) == ScrapedContent(r)[Len(ScrapedContent(r))]

\* C16: the bytes a run uploads are those of an artifact the scraper
\* generated during that same run; in particular the second run never uploads
\* the artifact generated for the first.
C16_FreshArtifact ==
    \A r \in active :
       sent[r] # <<>> =>
          /\ GeneratedBy(r) \in Range(sent[r])
          /\ Entry("scrape", 0, TRUE) \in Range(calls[r])

(* ----------------------------------------------------------------------- *)
\* the stages of a run after ensureLiveFileExists has returned
AfterReady == {"list", "classify", "delete", "cleanupdone", "upload", "batch", "poll", "final"}
\* the characters normalizeText replaces
Typographic == {"ldq", "rdq", "rsq", "endash"}

\* C17 (as stated): once ensureLiveFileExists has returned, no step of the
\* run changes the bytes of the artifact on disk.
C17_Original ==
    [][\A r \in active : pc[r] \in AfterReady => disk' = disk]_vars

\* C17 (amended): after ensureLiveFileExists has returned the run changes the
\* disk only in uploadFileToOpenAI, and there only the artifact's content:
\* every typographic quote or en dash is replaced, every other character is
\* kept in place, and the rewritten bytes are the ones sent; from the upload
\* on the artifact holds no typographic character.
C17_Amended ==
    /\ [][\A r \in active :
            /\ (pc[r] \in AfterReady \ {"upload"}) => disk' = disk
            /\ pc[r] = "upload" =>
                 LET old == disk[liveAbsPath].content
                     new == disk'[liveAbsPath].content
                 IN /\ \A p \in DiskPaths \ {liveAbsPath} : disk'[p] = disk[p]
                    /\ disk'[liveAbsPath].exists = disk[liveAbsPath].exists
                    /\ Len(new) = Len(old)
                    /\ \A n \in 1..Len(old) :
                         /\ new[n] \notin Typographic
                         /\ old[n] \notin Typographic => new[n] = old[n]
                         /\ old[n] = "endash" => new[n] = "-"
                    /\ sent'[r] = new]_vars
    /\ [](\A r \in active :
            "upload" \in Ops(r) =>
               /\ sent[r] = disk[liveAbsPath].content
               /\ Range(sent[r]) \cap Typographic = {})

\* a finished run whose scraped artifact was rewritten: the header's en dash
\* is a hyphen on disk
C17_Witness ==
    /\ pc[1] = "done"
    /\ Entry("scrape", 0, TRUE) \in Range(calls[1])
    /\ disk[liveAbsPath].content = <<"OBEC", "-", "LIVE", "gen1">>
    /\ disk[liveAbsPath].content # ScrapedContent(1)

(* ----------------------------------------------------------------------- *)
ServerlessLocation ==
    <<"/", "tmp", "/", "knowledge", "/", "10_", "LIVE", "_obec_chomutice", ".txt">>
LocalLocation ==
    <<"/", "repo", "/", "public", "/", "knowledge", "/", "10_", "LIVE", "_obec_chomutice", ".txt">>
\* the override as configuration values are read (quotes and blanks stripped)
Override == cleanEnv(procEnv.LIVE_FILE_PATH)
Marker == procEnv.NETLIFY # <<>> \/ procEnv.AWS_LAMBDA_FUNCTION_NAME # <<>>

\* C18: the resolved artifact path is a function of the configuration with
\* the precedence override > serverless > local, in the orchestrator and in
\* the scraper alike: a non-empty override is the result (taken as it is when
\* absolute, under the working directory when relative) whatever the markers
\* say; without an override a serverless marker gives the location under the
\* temp directory; with neither the result is the local location.
C18_PathPrecedence ==
    result.fn \in {"resolveLivePath", "resolveOutPath"} =>
       /\ Override # <<>> =>
             result.out = IF Head(Override) = "/" THEN Override
                          ELSE <<"/", "repo", "/">> \o Override
       /\ (Override = <<>> /\ Marker) => result.out = ServerlessLocation
       /\ (Override = <<>> /\ ~Marker) => result.out = LocalLocation

\* a relative override wins although a serverless marker is set
C18_Witness ==
    /\ result.fn = "resolveLivePath"
    /\ procEnv.LIVE_FILE_PATH = <<"dq", "data", ".txt", "dq">>
    /\ procEnv.AWS_LAMBDA_FUNCTION_NAME # <<>>
    /\ result.out = <<"/", "repo", "/", "data", ".txt">>

(* ----------------------------------------------------------------------- *)
\* the filename a listing record carries, if any
Embedded(f) == IF f.filename # <<>> THEN f.filename ELSE f.file.filename
\* the file id a listing record carries, 0 if none
CarriedId(f) == IF f.file_id # 0 THEN f.file_id ELSE IF f.file.id # 0 THEN f.file.id ELSE f.id

Listings == {"aktuality", "rozhlas", "kalendar"}
FetchedPages(r) == { fetches[r][n].page : n \in 1..Len(fetches[r]) }

\* C20: a failed fetch of one listing page does not abort the scrape: when
\* the scraper has ended with a listing page that failed to load, it has
\* still requested the homepage and the other listings and it has written
\* the artifact, which ensureLiveFileExists accepts.
C20_ListingFailureTolerated ==
    \A r \in active :
       (\E n \in 1..Len(fetches[r]) : fetches[r][n].page \in Listings /\ ~fetches[r][n].ok) =>
          /\ FetchedPages(r) = Range(ScrapePages)
          /\ disk[liveAbsPath].exists
          /\ Entry("scrape", 0, TRUE) \in Range(calls[r])

(* ------------------------------- C21 ----------------------------------- *)
\* a parsed entry has a title when some character of it is not white space
TitlePresent(e) == \E n \in 1..Len(e.title) : e.title[n] \notin {"sp", "nbsp", "nl"}
\* the positions of the entries that have both a title and a detail link
Complete(entries) == { n \in 1..Len(entries) : TitlePresent(entries[n]) /\ entries[n].href # <<>> }
\* the caps the listings are held to
CapOf(fn) == IF fn = "scrapeKalendar" THEN 10 ELSE 20

\* C21: each listing retains exactly the first min(cap, n) of the n parsed
\* entries that have both a title and a detail link, in document order, with
\* caps 20 (news), 20 (broadcasts) and 10 (events); an entry without title or
\* link is dropped and does not count toward the cap
C21_ListingCap ==
    result.fn \in ListingFns =>
        LET ok == Complete(input.entries)
            out == result.out
            want == IF Cardinality(ok) < CapOf(result.fn) THEN Cardinality(ok) ELSE CapOf(result.fn)
        IN /\ Len(out) = want
           /\ \A n \in 1..Len(out) :
                /\ out[n].n \in ok
                /\ Cardinality({ m \in ok : m < out[n].n }) = n - 1

\* an events page with an incomplete entry among its first ten and more than
\* ten complete entries: ten are kept, the eleventh parsed entry among them
C21_Witness ==
    /\ result.fn = "scrapeKalendar"
    /\ \E n \in 1..10 : n \notin Complete(input.entries)
    /\ Cardinality(Complete(input.entries)) > 10
    /\ Len(result.out) = 10
    /\ result.out[10].n = 11

(* ------------------------------- C22 ----------------------------------- *)
\* the position of the first occurrence of sentence c among the texts
FirstAt(texts, c) ==
    CHOOSE n \in 1..Len(texts) : texts[n] = c /\ \A m \in 1..(n - 1) : texts[m] # c
\* a keyword sentence whose length lies well inside the window
Candidate(c) == c.kw /\ c.len > 15 /\ c.len < 200

\* C22: the homepage notices hold no sentence twice, number at most 3, are the
\* first distinct accepted candidates in document order, and hold no
\* candidate shorter than 15 or longer than 200 characters
C22_Notices ==
    result.fn = "extractHomepageNotice" =>
        LET out == result.out
            texts == input.texts
        IN /\ Len(out) <= 3
           /\ \A m, n \in 1..Len(out) : m # n => out[m] # out[n]
           /\ \A n \in 1..Len(out) :
                /\ \E p \in 1..Len(texts) : texts[p] = out[n]
                /\ out[n].kw /\ out[n].len >= 15 /\ out[n].len <= 200
           /\ \A m, n \in 1..Len(out) : m < n => FirstAt(texts, out[m]) < FirstAt(texts, out[n])
           /\ \A p \in 1..Len(texts) :
                (Candidate(texts[p]) /\ \A n \in 1..Len(out) : out[n] # texts[p]) =>
                    /\ Len(out) = 3
                    /\ \A n \in 1..3 : FirstAt(texts, out[n]) < p

\* four distinct accepted sentences on the homepage, three of them kept
C22_Witness ==
    /\ result.fn = "extractHomepageNotice"
    /\ Cardinality({ input.texts[p] : p \in { q \in 1..Len(input.texts) : Candidate(input.texts[q]) } }) = 4
    /\ Len(result.out) = 3

\* a homepage that repeats an accepted sentence, which is kept once
C22_WitnessRepeat ==
    /\ result.fn = "extractHomepageNotice"
    /\ \E p, q \in 1..Len(input.texts) :
          p # q /\ input.texts[p] = input.texts[q] /\ Candidate(input.texts[p])
    /\ \E n \in 1..Len(result.out) : result.out[n].len = 16

(* ------------------------------- C28 ----------------------------------- *)
\* a keyword sentence whose length is exactly one of the two bounds
AtBound(c) == c.kw /\ c.len \in {15, 200}

\* C28: a keyword-matching homepage candidate of length exactly 15 or exactly
\* 200 is accepted (the length bounds are inclusive)
C28_Original ==
    (result.fn = "extractHomepageNotice" /\ Len(result.out) < 3) =>
        \A p \in 1..Len(input.texts) :
            AtBound(input.texts[p]) => \E n \in 1..Len(result.out) : result.out[n] = input.texts[p]

\* C28 as the code has it: a keyword-matching candidate of length exactly 15
\* or exactly 200 is rejected; the accepted lengths are 16 to 199
C28_Amended ==
    result.fn = "extractHomepageNotice" =>
        /\ \A n \in 1..Len(result.out) : ~AtBound(result.out[n])
        /\ Len(result.out) < 3 =>
             \A p \in 1..Len(input.texts) :
                (input.texts[p].kw /\ input.texts[p].len \in 16..199) =>
                    \E n \in 1..Len(result.out) : result.out[n] = input.texts[p]

\* keyword sentences of 15, 16, 199 and 200 characters: the two inner ones
\* are kept, the two at the bounds are not
C28_Witness ==
    /\ result.fn = "extractHomepageNotice"
    /\ { input.texts[p].len : p \in 1..Len(input.texts) } = {15, 16, 199, 200}
    /\ { result.out[n].len : n \in 1..Len(result.out) } = {16, 199}

(* ------------------------------- C23 ----------------------------------- *)
\* the characters the strip is said to remove
TrailingMarks == {")", "]", "}", ".", ",", ";", ":", "!", "?", "ellipsis"}
EndsInMark(u) == u # <<>> /\ u[Len(u)] \in TrailingMarks

\* C23: stripping trailing punctuation is idempotent, leaves a URL that does
\* not end in punctuation unchanged, and its result never ends in one of the
\* stripped characters
C23_StripIdempotent ==
    result.fn = "stripTrailingPunctuationFromUrl" =>
        /\ result.again = result.out
        /\ ~EndsInMark(input.url) => result.out = input.url
        /\ ~EndsInMark(result.out)

\* a URL that ends in two punctuation characters, both taken off
C23_Witness ==
    /\ result.fn = "stripTrailingPunctuationFromUrl"
    /\ Len(input.url) >= 3
    /\ EndsInMark(input.url) /\ EndsInMark(SubSeq(input.url, 1, Len(input.url) - 1))
    /\ Len(result.out) = Len(input.url) - 2
    /\ result.out # <<>>

(* ------------------------------- C24 ----------------------------------- *)
Responded(r) == response[r].status # 0
\* the first half of the claim: ok and 200 exactly on exit code 0, otherwise
\* ok = false, an error message and 500
StatusFollowsExit(r) ==
    /\ response[r].ok <=> exitCode[r] = 0
    /\ response[r].ok => response[r].status = 200
    /\ ~response[r].ok =>
          /\ response[r].status = 500
          /\ "error" \in response[r].keys
          /\ response[r].text # <<>>

\* C24: the cron handler returns ok = true and status 200 exactly when the
\* pipeline subprocess exits with code 0, otherwise ok = false, an error
\* message and status 500; the result carries timestamps and a step-by-step
\* status list
C24_Original ==
    \A r \in active : Responded(r) =>
        /\ StatusFollowsExit(r)
        /\ {"timestamps", "steps"} \subseteq response[r].keys

\* C24 as the code has it: the status follows the exit code, and the body
\* holds nothing but ok and message on success, ok and error on failure
C24_Amended ==
    \A r \in active : Responded(r) =>
        /\ StatusFollowsExit(r)
        /\ response[r].keys = IF response[r].ok THEN {"ok", "message"} ELSE {"ok", "error"}

\* an answer after a pipeline run that failed at the upload
C24_Witness ==
    /\ Responded(1) /\ response[1].status = 500
    /\ failedAt[1] = "upload"

\* an answer after a pipeline run that succeeded
C24_WitnessOk == Responded(1) /\ response[1].status = 200 /\ pc[1] = "done"

(* ------------------------------- C25 ----------------------------------- *)
\* C25: the number of pages the crawler fetches in one run never exceeds the
\* page-crawl cap of 80, whatever the link structure and whatever pages fail,
\* are not HTML or are too short to keep; and no URL is fetched more than once
C25_FetchCap ==
    /\ Len(crawl.fetched) <= 80
    /\ \A m, n \in 1..Len(crawl.fetched) : m # n => crawl.fetched[m] # crawl.fetched[n]

\* what the loop does bound: the pages kept, and each URL is fetched once
C25_KeptCap ==
    /\ Len(crawl.pages) <= 80
    /\ \A m, n \in 1..Len(crawl.fetched) : m # n => crawl.fetched[m] # crawl.fetched[n]

(* ------------------------------- C26 ----------------------------------- *)
\* the run has printed the success message and left with status 0
ReportedSuccess(r) == pc[r] = "done"

\* C26: the orchestrator reports success (final message, exit status 0) only
\* if in that run the upload returned a file id and a status query observed
\* the batch as completed; never after a timeout, a failed or cancelled batch
\* or a failed upload
C26_SuccessMeansIndexed ==
    \A r \in active :
        /\ exitCode[r] = 0 => ReportedSuccess(r)
        /\ ReportedSuccess(r) =>
             /\ exitCode[r] = 0
             /\ fileId[r] # 0
             /\ Entry("upload", fileId[r], TRUE) \in Range(calls[r])
             /\ Entry("status", fileId[r], TRUE) \in Range(calls[r])
             /\ "completed" \in seen[r]
             /\ seen[r] \cap {"failed", "cancelled"} = {}
             /\ \A c \in Range(calls[r]) : c.op \in {"upload", "batch", "status"} => c.ok
             /\ error[r] = <<>>

\* a run that reports success after a status query that found the batch
\* unfinished and one that found it completed
C26_Witness ==
    /\ ReportedSuccess(1)
    /\ CountOp(1, "status") = 2
    /\ seen[1] = {"completed"}

(* ------------------------------- C27 ----------------------------------- *)
\* C27: once the batch has been observed as completed the run ends in
\* success: no later step, in particular not a failure of the final index
\* listing, turns it into a reported failure
C27_CompletedStaysSuccess ==
    \A r \in active : "completed" \in seen[r] => (pc[r] # "failed" /\ exitCode[r] # 1)

ScraperClosed(r) == pc[r] = "scraping" /\ pc'[r] # "scraping"
AllFetched(f) == Len(f) = 4 /\ \A n \in 1..4 : f[n].ok

\* C30: the scraper writes the artifact only after the homepage and all three
\* listing fetches have succeeded: if any fetch fails the file at the output
\* path is neither created nor modified and the scraper exits with a failure
\* status; what it writes is a complete new version
C30_WriteAfterAllFetches ==
    [][\A r \in active : ScraperClosed(r) =>
          IF AllFetched(fetches'[r])
          THEN /\ disk'[liveAbsPath] = [exists |-> TRUE, content |-> ScrapedContent(r)]
               /\ \A p \in DiskPaths \ {liveAbsPath} : disk'[p] = disk[p]
          ELSE /\ disk' = disk
               /\ LastCall(r)' = Entry("scrape", 0, FALSE)
               /\ error'[r] = <<"node scraper failed">>]_vars

\* a scraper whose homepage and first listing were fetched and whose second
\* listing failed: no artifact on disk, the orchestrator has failed
C30_Witness ==
    /\ Len(fetches[1]) = 3 /\ ~fetches[1][3].ok
    /\ ~disk[liveAbsPath].exists
    /\ failedAt[1] = "artifact"

(* ------------------------------- C31 ----------------------------------- *)
\* chunkText has returned
ChunksReturned == chunker.at = "returned"
\* the number of characters chunks m and n have in common
Shared(c, m, n) ==
    LET lo == IF c[m].from > c[n].from THEN c[m].from ELSE c[n].from
        hi == IF c[m].to < c[n].to THEN c[m].to ELSE c[n].to
    IN IF hi > lo THEN hi - lo ELSE 0

\* the windows the claim describes, over the cleaned text of the input
Windows ==
    LET c == chunker.chunks
        len == input.text.body
    IN /\ len = 0 => c = <<>>
       /\ len > 0 => (c # <<>> /\ c[Len(c)].to = len)
       /\ \A n \in 1..Len(c) :
            /\ c[n].to - c[n].from <= 1200
            /\ c[n].to > c[n].from
            /\ c[n].from = (n - 1) * (1200 - 150)
       /\ \A n \in 1..(Len(c) - 1) : Shared(c, n, n + 1) = 150
       /\ \A p \in 0..(len - 1) : \E n \in 1..Len(c) : c[n].from <= p /\ p < c[n].to

\* C31: chunkText terminates for every input and returns overlapping
\* fixed-size windows of the cleaned text: every chunk has at most 1200
\* characters, chunk k starts at offset k * 1050, consecutive chunks share
\* exactly 150 characters, the last chunk ends at the end of the text, every
\* character lies in some chunk, and empty text yields no chunks
C31_Chunks ==
    /\ [](ChunksReturned => Windows)
    /\ (input.fn = "chunkText") ~> ChunksReturned

\* a text of 2101 cleaned characters inside outer white space: three chunks,
\* the last of one character beyond the overlap
C31_Witness ==
    /\ ChunksReturned
    /\ input.text.lead = 1 /\ input.text.trail = 1
    /\ Len(chunker.chunks) = 3
    /\ chunker.chunks[3] = [from |-> 2100, to |-> 2251]

\* a text that is white space only: no chunks
C31_WitnessEmpty ==
    /\ ChunksReturned /\ input.text.lead = 1 /\ input.text.body = 0 /\ chunker.chunks = <<>>

(* ------------------------------- C32 ----------------------------------- *)
\* crawl has returned its pages and PDF links
CrawlReturned == result.fn = "crawl"
\* this step hands fetchHtml a URL whose fetch fails or is not HTML
SkippedFetch ==
    /\ Len(crawl'.fetched) = Len(crawl.fetched) + 1
    /\ FetchOf(input.site, Head(crawl.queue)) \in {"fail", "nonhtml"}

\* C32: the crawl loop terminates on every finite site and returns at most
\* 80 pages and at most 40 PDF links; a page whose fetch fails or is not HTML
\* is skipped without aborting the crawl; only same-host URLs are enqueued
C32_CrawlBounded ==
    /\ crawl.running ~> ~crawl.running
    /\ [](CrawlReturned => (Len(result.out) <= 80 /\ Len(result.pdfs) <= 40))
    /\ [][SkippedFetch => (crawl'.running /\ ~crawl'.thrown /\ crawl'.pages = crawl.pages
                           /\ crawl'.queue = Tail(crawl.queue))]_vars
    /\ [](\A n \in 1..Len(crawl.queue) : crawl.queue[n] >= 1)

\* a crawl that skipped a failed fetch and a document that is not HTML,
\* passed a link to another host, and returned with more PDF links found
\* than it may return
C32_Witness ==
    /\ CrawlReturned
    /\ Len(crawl.pdfLinks) > 40 /\ Len(result.pdfs) = 40
    /\ \E n \in 1..Len(crawl.fetched) : FetchOf(input.site, crawl.fetched[n]) = "fail"
    /\ \E n \in 1..Len(crawl.fetched) : FetchOf(input.site, crawl.fetched[n]) = "nonhtml"
    /\ input.links = "wide"

\* a crawl that returned because it had kept 80 pages
C32_WitnessPages == CrawlReturned /\ Len(result.out) = 80 /\ crawl.queue # <<>>

(* ------------------------------- C33 ----------------------------------- *)
QueryResponded == query.at = "responded"
\* the handler has issued no remote call unless the request is a POST, both
\* settings are present and the message is a non-empty string
CallsNeedRequest ==
    query.calls # <<>> =>
        (input.method = "POST" /\ input.apiKey /\ input.assistantId /\ input.message = "text")
\* the poll ends with 504 only past the 25 s
TimeoutIsLate == (QueryResponded /\ query.code = 504) => query.elapsed > 25000
AnsweredOk == QueryResponded /\ query.ok /\ query.code = 200

\* C33: the query handler always eventually returns a response (the poll ends
\* by a terminal status, an error or the 25 s timeout with 504), it issues no
\* remote call unless the method is POST, both settings are present and the
\* message is a non-empty string, and it answers ok = true with 200 only if a
\* status check observed the run as completed
C33_Original ==
    /\ (input.fn = "handler") ~> QueryResponded
    /\ [](CallsNeedRequest /\ TimeoutIsLate)
    /\ [](AnsweredOk => "completed" \in query.seen)

\* C33 as the code has it: ok = true with 200 only if the run was reported as
\* completed, by a status check or by the response that created the run
C33_Amended ==
    /\ (input.fn = "handler") ~> QueryResponded
    /\ [](CallsNeedRequest /\ TimeoutIsLate)
    /\ [](AnsweredOk => (query.status = "completed"
                         /\ ("completed" \in query.seen \/ query.created = "completed")))

\* an answer of 200 after a status check that found the run completed
C33_Witness ==
    /\ AnsweredOk
    /\ query.created = "queued" /\ query.seen = {"in_progress", "completed"}

\* the poll that ran into the deadline
C33_WitnessTimeout == QueryResponded /\ query.code = 504 /\ Len(query.calls) > 30

(* ------------------------------- C34 ----------------------------------- *)
\* C34: whenever the run is in status requires_action, reported by the
\* run-creation response or by a later status check, the handler responds
\* with 501 and never with the generic 500 of a failed run
C34_RequiresAction ==
    (QueryResponded /\ (query.created = "requires_action" \/ "requires_action" \in query.seen))
        => (query.code = 501 /\ query.error # "Run failed")
====
